---- MODULE Spec2Model ----
(***************************************************************************)
(* Two-player curling match (public/game.js) played over the relay         *)
(* (server.js): stone physics, scoring, the rule enforcers, the match      *)
(* state machine of each peer's GameManager and the peer-to-peer           *)
(* synchronisation messages.                                               *)
(*                                                                         *)
(* Numbers.  The program computes in IEEE doubles; here positions and      *)
(* lengths are integers in 1/100 of a sheet unit and velocities are        *)
(* integers in 1/1000 of a sheet unit per frame.  Friction factors are per *)
(* mille.  Every product is rounded to the nearest integer, symmetrically  *)
(* in the sign, as the floating-point operations are.                      *)
(***************************************************************************)
EXTENDS Integers, Sequences, FiniteSets, TLC

\* ------------------------------------------------------------------
\* CONSTANTS (game.js 11-42)
\* ------------------------------------------------------------------
ICE_FRICTION == 984             \* 0.984, per mille
SWEPT_FRICTION == 998           \* 0.998
ROUGH_FRICTION == 960           \* 0.96
MIN_VELOCITY == 60              \* 0.06 units per frame, in 1/1000
STONE_RADIUS == 1400            \* 14 units, in 1/100
RESTITUTION == 85               \* 0.85, per cent
MAX_LAUNCH_SPEED == 10000       \* 10 units per frame, in 1/1000
SWEEP_RADIUS == 3000            \* 30 units
FRICTION_DEGRADATION == 1       \* 0.001, per mille
MAX_SWEEP_ENERGY == 1000        \* 100, in 1/10
SWEEP_DRAIN_RATE == 15          \* 1.5, in 1/10
FGZ_STONE_COUNT == 4

SHEET == [width |-> 24000, length |-> 90000, houseRadius |-> 9000,
          hogLineFromEnd |-> 20000, hackFromEnd |-> 3000,
          houseCenterY |-> 12000, centerLineY |-> 45000]

\* Renderer.sheetBounds
sheetBounds == [left |-> 0, right |-> SHEET.width, top |-> 0, bottom |-> SHEET.length]

\* GameManager.launchPos
launchPos == [x |-> SHEET.width \div 2, y |-> SHEET.length - SHEET.hackFromEnd - 3000]

totalEnds == 8
StonesPerTeam == 8
StonesPerEnd == 16

\* ------------------------------------------------------------------
\* Arithmetic helpers
\* ------------------------------------------------------------------
Abs(n) == IF n < 0 THEN -n ELSE n

\* n / d rounded to the nearest integer, halves away from zero (d > 0)
RoundDiv(n, d) ==
    IF n >= 0 THEN (2 * n + d) \div (2 * d) ELSE -((2 * (-n) + d) \div (2 * d))

\* a velocity (1/1000 per frame) as a displacement in one frame (1/100)
Step(v) == RoundDiv(v, 10)

RECURSIVE SqrtIn(_, _, _)
SqrtIn(n, lo, hi) ==
    IF lo >= hi THEN lo
    ELSE IF ((lo + hi + 1) \div 2) * ((lo + hi + 1) \div 2) <= n
         THEN SqrtIn(n, (lo + hi + 1) \div 2, hi)
         ELSE SqrtIn(n, lo, (lo + hi + 1) \div 2 - 1)

\* Math.sqrt on a squared length below 2^30, rounded to the nearest integer
\* (r is the integer part of the root)
NearestRoot(n, r) == IF n - r * r > r THEN r + 1 ELSE r

Sqrt(n) == NearestRoot(n, SqrtIn(n, 0, 32767))

\* sqrt(dx^2 + dy^2) < r, computed without leaving the 32-bit range
DistLess(dx, dy, r) ==
    /\ Abs(dx) < r
    /\ Abs(dy) < r
    /\ dx * dx + dy * dy < r * r

\* sqrt(dx^2 + dy^2) <= r
DistLeq(dx, dy, r) ==
    /\ Abs(dx) <= r
    /\ Abs(dy) <= r
    /\ dx * dx + dy * dy <= r * r

\* ------------------------------------------------------------------
\* STONE (game.js 60-124)
\* ------------------------------------------------------------------
Stone(team, x, y) ==
    [team |-> team, x |-> x, y |-> y, vx |-> 0, vy |-> 0, active |-> TRUE]

\* speed^2; speed itself is only ever compared with MIN_VELOCITY
speedSq(s) == s.vx * s.vx + s.vy * s.vy

\* speed > MIN_VELOCITY.  Speeds are kept to 1/1000 unit per frame, and friction
\* brings a speed down to the grid point MIN_VELOCITY from above: that point
\* stands for a speed the code finds above MIN_VELOCITY.
isMoving(s) == speedSq(s) >= MIN_VELOCITY * MIN_VELOCITY

\* some zone of the list covers the point (x, y) of a stone
InZone(zones, x, y) ==
    \E i \in 1..Len(zones) :
        DistLess(x - zones[i].x, y - zones[i].y, zones[i].radius + STONE_RADIUS \div 2)

\* a friction factor with rough ice overriding swept ice
FrictionAt_roughFirst(x, y, sweepZones, roughZones, currentEnd) ==
    IF InZone(roughZones, x, y) THEN ROUGH_FRICTION
    ELSE IF InZone(sweepZones, x, y) THEN SWEPT_FRICTION
    ELSE ICE_FRICTION - (currentEnd - 1) * FRICTION_DEGRADATION

\* the friction factor at the point (x, y): swept ice overrides rough ice
FrictionAt(x, y, sweepZones, roughZones, currentEnd) ==
    IF InZone(sweepZones, x, y) THEN SWEPT_FRICTION
    ELSE IF InZone(roughZones, x, y) THEN ROUGH_FRICTION
    ELSE ICE_FRICTION - (currentEnd - 1) * FRICTION_DEGRADATION

\* the stone with velocity (vx, vy), stopped when it is slower than MIN_VELOCITY
Slowed(s, vx, vy) ==
    IF vx * vx + vy * vy < MIN_VELOCITY * MIN_VELOCITY
    THEN [s EXCEPT !.vx = 0, !.vy = 0]
    ELSE [s EXCEPT !.vx = vx, !.vy = vy]

\* the stone s, already moved, after friction
Rubbed(s, friction) ==
    Slowed(s, RoundDiv(s.vx * friction, 1000), RoundDiv(s.vy * friction, 1000))

\* the stone s moved by its velocity
Moved(s) == [s EXCEPT !.x = s.x + Step(s.vx), !.y = s.y + Step(s.vy)]

\* Stone.update
StoneUpdate(s, sweepZones, roughZones, currentEnd) ==
    IF ~s.active THEN s
    ELSE Rubbed(Moved(s),
                FrictionAt(s.x + Step(s.vx), s.y + Step(s.vy),
                           sweepZones, roughZones, currentEnd))

\* ------------------------------------------------------------------
\* PHYSICS ENGINE (game.js 129-245)
\* ------------------------------------------------------------------
addSweepZone(sweepZones, x, y) ==
    IF \E i \in 1..Len(sweepZones) :
           DistLess(sweepZones[i].x - x, sweepZones[i].y - y, SWEEP_RADIUS \div 2)
    THEN sweepZones
    ELSE Append(sweepZones, [x |-> x, y |-> y, radius |-> SWEEP_RADIUS])

\* the pair after the impulse (ix, iy) and the separation (ox, oy)
Pushed(a, b, ix, iy, ox, oy) ==
    << [a EXCEPT !.vx = a.vx - ix, !.vy = a.vy - iy, !.x = a.x - ox, !.y = a.y - oy],
       [b EXCEPT !.vx = b.vx + ix, !.vy = b.vy + iy, !.x = b.x + ox, !.y = b.y + oy] >>

\* the pair after an impulse along the normal (dx, dy) / d, with overlap minDist - d
Impulse(a, b, dx, dy, d, impulse, overlap) ==
    Pushed(a, b, RoundDiv(impulse * dx, d), RoundDiv(impulse * dy, d),
                 RoundDiv(overlap * dx, 2 * d), RoundDiv(overlap * dy, 2 * d))

\* a contact that is resolved whether the stones approach each other or not
Contact_alsoApart(a, b, dx, dy, d, dot) ==
    Impulse(a, b, dx, dy, d, RoundDiv(RoundDiv(dot, d) * RESTITUTION, 100),
            STONE_RADIUS + STONE_RADIUS - d)

\* two stones in contact at distance d: dot / d is dvDotN
Contact(a, b, dx, dy, d, dot) ==
    IF dot <= 0 THEN <<a, b>>
    ELSE Impulse(a, b, dx, dy, d, RoundDiv(RoundDiv(dot, d) * RESTITUTION, 100),
                 STONE_RADIUS + STONE_RADIUS - d)

\* the pair (a, b) after resolveCollision(a, b), (dx, dy) being b - a
Resolve(a, b, dx, dy) ==
    IF ~(DistLess(dx, dy, STONE_RADIUS + STONE_RADIUS) /\ (dx # 0 \/ dy # 0))
    THEN <<a, b>>
    ELSE Contact(a, b, dx, dy, Sqrt(dx * dx + dy * dy),
                 (a.vx - b.vx) * dx + (a.vy - b.vy) * dy)

resolveCollision(a, b) ==
    IF ~a.active \/ ~b.active THEN <<a, b>>
    ELSE Resolve(a, b, b.x - a.x, b.y - a.y)

\* stones with the pair ab written at the places i and j
PutPair(stones, i, j, ab) == [stones EXCEPT ![i] = ab[1], ![j] = ab[2]]

\* the double loop of PhysicsEngine.update over the pairs i < j, from (i, j) on
RECURSIVE Collide(_, _, _)
Collide(stones, i, j) ==
    IF i >= Len(stones) THEN stones
    ELSE IF j > Len(stones) THEN Collide(stones, i + 1, i + 2)
    ELSE IF ~stones[i].active THEN Collide(stones, i + 1, i + 2)
    ELSE IF ~stones[j].active THEN Collide(stones, i, j + 1)
    ELSE Collide(PutPair(stones, i, j, resolveCollision(stones[i], stones[j])), i, j + 1)

\* a stone outside the sheet (with its slack) is retired
OutOfBounds(s, bounds) ==
    \/ s.x - STONE_RADIUS < bounds.left - 2000
    \/ s.x + STONE_RADIUS > bounds.right + 2000
    \/ s.y - STONE_RADIUS < bounds.top - 4000
    \/ s.y + STONE_RADIUS > bounds.bottom + 4000

\* the last loop of PhysicsEngine.update
RetireOut(stones, bounds) ==
    [i \in 1..Len(stones) |->
        IF stones[i].active /\ OutOfBounds(stones[i], bounds)
        THEN [stones[i] EXCEPT !.active = FALSE, !.vx = 0, !.vy = 0]
        ELSE stones[i]]

\* the first loop of PhysicsEngine.update
MoveAll(stones, sweepZones, roughZones, currentEnd) ==
    [i \in 1..Len(stones) |-> StoneUpdate(stones[i], sweepZones, roughZones, currentEnd)]

\* PhysicsEngine.update: the stones after one frame
PhysicsUpdate(stones, sweepZones, roughZones, bounds, currentEnd) ==
    RetireOut(Collide(MoveAll(stones, sweepZones, roughZones, currentEnd), 1, 2), bounds)

anyMoving(stones) == \E i \in 1..Len(stones) : isMoving(stones[i])

\* ------------------------------------------------------------------
\* SCORING (game.js 701-728)
\* ------------------------------------------------------------------
houseCenter == [x |-> SHEET.width \div 2, y |-> SHEET.houseCenterY]

\* index of the first element of seq satisfying P, 0 when there is none (Array.find)
FindFirst(seq, P(_)) ==
    LET S == {i \in 1..Len(seq) : P(seq[i])}
    IN  IF S = {} THEN 0 ELSE CHOOSE i \in S : \A j \in S : i <= j

\* e inserted into the sorted seq after every element that is not farther
RECURSIVE InsertByDistance(_, _)
InsertByDistance(seq, e) ==
    IF seq = <<>> THEN <<e>>
    ELSE IF Head(seq).distance <= e.distance
         THEN <<Head(seq)>> \o InsertByDistance(Tail(seq), e)
         ELSE <<e>> \o seq

\* Array.sort((a, b) => a.distance - b.distance): ascending and stable
RECURSIVE SortByDistance(_)
SortByDistance(seq) ==
    IF seq = <<>> THEN <<>>
    ELSE InsertByDistance(SortByDistance(SubSeq(seq, 1, Len(seq) - 1)), seq[Len(seq)])

\* the distance of a stone in the house to the button, as its square: distances
\* are only compared with each other
distSq(s, c) == (s.x - c.x) * (s.x - c.x) + (s.y - c.y) * (s.y - c.y)

\* larger than every distance of a stone in the house
Infinity == (SHEET.houseRadius + STONE_RADIUS) * (SHEET.houseRadius + STONE_RADIUS) + 1

\* a calculateScore that also counts a stone as far out as the closest opposing one
calculateScore_countsTies(stones) ==
    LET maxDist == SHEET.houseRadius + STONE_RADIUS
        InH(s) == s.active /\ DistLeq(s.x - houseCenter.x, s.y - houseCenter.y, maxDist)
        kept == SelectSeq(stones, InH)
        inHouse == SortByDistance([i \in 1..Len(kept) |->
                       [team |-> kept[i].team, distance |-> distSq(kept[i], houseCenter)]])
        closestTeam == inHouse[1].team
        IsOpponent(e) == e.team # closestTeam
        closestOpponent == FindFirst(inHouse, IsOpponent)
        opponentDist == IF closestOpponent # 0 THEN inHouse[closestOpponent].distance
                        ELSE Infinity
        points == Cardinality({i \in 1..Len(inHouse) :
                      inHouse[i].team = closestTeam /\ inHouse[i].distance <= opponentDist})
    IN  IF Len(inHouse) = 0 THEN [team |-> -1, points |-> 0]
        ELSE [team |-> closestTeam, points |-> points]

\* a calculateScore that takes the stones in the house whether active or not
calculateScore_countsRetired(stones) ==
    LET maxDist == SHEET.houseRadius + STONE_RADIUS
        InH(s) == DistLeq(s.x - houseCenter.x, s.y - houseCenter.y, maxDist)
        kept == SelectSeq(stones, InH)
        inHouse == SortByDistance([i \in 1..Len(kept) |->
                       [team |-> kept[i].team, distance |-> distSq(kept[i], houseCenter)]])
        closestTeam == inHouse[1].team
        IsOpponent(e) == e.team # closestTeam
        closestOpponent == FindFirst(inHouse, IsOpponent)
        opponentDist == IF closestOpponent # 0 THEN inHouse[closestOpponent].distance
                        ELSE Infinity
        points == Cardinality({i \in 1..Len(inHouse) :
                      inHouse[i].team = closestTeam /\ inHouse[i].distance < opponentDist})
    IN  IF Len(inHouse) = 0 THEN [team |-> -1, points |-> 0]
        ELSE [team |-> closestTeam, points |-> points]

calculateScore(stones) ==
    LET maxDist == SHEET.houseRadius + STONE_RADIUS
        InH(s) == s.active /\ DistLeq(s.x - houseCenter.x, s.y - houseCenter.y, maxDist)
        kept == SelectSeq(stones, InH)
        inHouse == SortByDistance([i \in 1..Len(kept) |->
                       [team |-> kept[i].team, distance |-> distSq(kept[i], houseCenter)]])
        closestTeam == inHouse[1].team
        IsOpponent(e) == e.team # closestTeam
        closestOpponent == FindFirst(inHouse, IsOpponent)
        opponentDist == IF closestOpponent # 0 THEN inHouse[closestOpponent].distance
                        ELSE Infinity
        points == Cardinality({i \in 1..Len(inHouse) :
                      inHouse[i].team = closestTeam /\ inHouse[i].distance < opponentDist})
    IN  IF Len(inHouse) = 0 THEN [team |-> -1, points |-> 0]
        ELSE [team |-> closestTeam, points |-> points]

\* ------------------------------------------------------------------
\* RULE ENFORCERS (game.js 1697-1763)
\* ------------------------------------------------------------------
\* the snapshot taken by launchStone / launchStoneFromAction
Snapshot(stones) ==
    [i \in 1..Len(stones) |->
        [team |-> stones[i].team, x |-> stones[i].x, y |-> stones[i].y,
         vx |-> stones[i].vx, vy |-> stones[i].vy, active |-> stones[i].active]]

\* one pass of the loop body of enforceFreeGuardZone for the snapshot entry pre
EnforceOne(stones, pre, currentTeam) ==
    LET houseRadius == SHEET.houseRadius + STONE_RADIUS
        inFGZ == /\ pre.y <= SHEET.hogLineFromEnd
                 /\ ~DistLeq(pre.x - houseCenter.x, pre.y - houseCenter.y, houseRadius)
        Still(s) == /\ s.team = pre.team
                    /\ ~isMoving(s)
                    /\ Abs(s.x - pre.x) < 100
                    /\ Abs(s.y - pre.y) < 100
        Displaced(s) == /\ s.team = pre.team
                    /\ s.active
                    /\ (Abs(s.x - pre.x) > 200 \/ Abs(s.y - pre.y) > 200)
        currentStone == FindFirst(stones, Still)
        displaced == FindFirst(stones, Displaced)
        restored == IF displaced # 0
                    THEN [stones EXCEPT ![displaced] =
                             [@ EXCEPT !.x = pre.x, !.y = pre.y, !.vx = 0, !.vy = 0]]
                    ELSE Append(stones, Stone(pre.team, pre.x, pre.y))
        last == Len(restored)
    IN  IF pre.team = currentTeam \/ ~pre.active \/ ~inFGZ THEN stones
        ELSE IF currentStone # 0 THEN stones
        ELSE IF restored[last].team = currentTeam
             THEN [restored EXCEPT ![last] = [@ EXCEPT !.active = FALSE]]
             ELSE restored

RECURSIVE EnforceFrom(_, _, _, _)
EnforceFrom(stones, pres, k, currentTeam) ==
    IF k > Len(pres) THEN stones
    ELSE EnforceFrom(EnforceOne(stones, pres[k], currentTeam), pres, k + 1, currentTeam)

\* enforceFreeGuardZone without the limit on the throws of the end
enforceFreeGuardZone_everyThrow(stones, preThrowPositions, stonesThrown, currentTeam) ==
    EnforceFrom(stones, preThrowPositions, 1, currentTeam)

enforceFreeGuardZone(stones, preThrowPositions, stonesThrown, currentTeam) ==
    IF stonesThrown[0] + stonesThrown[1] > FGZ_STONE_COUNT THEN stones
    ELSE EnforceFrom(stones, preThrowPositions, 1, currentTeam)

checkHogLine(stones) ==
    [i \in 1..Len(stones) |->
        IF stones[i].active /\ stones[i].y > SHEET.centerLineY /\ ~isMoving(stones[i])
        THEN [stones[i] EXCEPT !.active = FALSE, !.vx = 0, !.vy = 0]
        ELSE stones[i]]

\* ------------------------------------------------------------------
\* Bounds of the model and the inputs drawn from the environment
\* ------------------------------------------------------------------
MaxGestures == 2        \* launches and sweep gestures made while the match is followed
MaxThrows == 3          \* throws (launches and aim timeouts) started while the match is followed
MaxStrokes == 2         \* strokes of a sweep gesture
BurstFrames == 400      \* animation frames that run between two other events
MaxPlaced == 3          \* stones on the sheet when calculateScore is applied to drawn stones
LastRuleThrow == 6      \* throws of an end whose settling is followed from drawn stones

\* aim timeouts that have passed when the match starts to be followed
SkippedThrows == {0, 15}

Teams == {0, 1}
Peers == {0, 1}
Other(t) == 1 - t

\* launch velocities (vx, vy) computed by launchStone from aim, power and wobble:
\* a throw that stops short of the centre line, and one down the centre line that
\* reaches the house when it is swept and stops in front of it when it is not
LaunchVelocities == {<<0, -300>>, <<0, -9800>>}

\* points of the sheet where a player sweeps
SweepPoints == {[x |-> 12000, y |-> 40000]}

\* results of generateRoughZones: 3 to 5 patches
RoughZoneChoices ==
    { << [x |-> 4000, y |-> 30000, radius |-> 1500],
         [x |-> 20000, y |-> 50000, radius |-> 1200],
         [x |-> 5000, y |-> 70000, radius |-> 1900] >> }

\* ------------------------------------------------------------------
\* GAME MANAGER (game.js 888-1763).  g is one peer's GameManager; an operation
\* yields the manager after it and, where it sends, the messages it sends.
\* ------------------------------------------------------------------
\* the constructor followed by startGame up to its call of startEnd
NewGame(team) ==
    [myTeam |-> team,
     totalEnds |-> totalEnds, currentEnd |-> 1,
     scores |-> [t \in Teams |-> 0], stonesThrown |-> [t \in Teams |-> 0],
     currentTeam |-> 0, hammer |-> 1, state |-> "lobby",
     isDragging |-> FALSE, aimTarget |-> FALSE,
     isSweeping |-> FALSE, sweepEnergy |-> MAX_SWEEP_ENERGY,
     preThrowPositions |-> <<>>, isMyTurn |-> FALSE, isLaunchOwner |-> FALSE,
     stones |-> <<>>, sweepZones |-> <<>>, roughZones |-> <<>>,
     endModal |-> FALSE, nextEndOnclick |-> "none", gameOverTitle |-> "",
     disconnectModal |-> FALSE]

\* a startEnd that also clears the scoreboard
startEnd_clearsScores(g, zones) ==
    LET team == IF g.hammer = 1 THEN 0 ELSE 1
    IN  [g EXCEPT !.stones = <<>>, !.sweepZones = <<>>,
                  !.stonesThrown = [t \in Teams |-> 0],
                  !.scores = [t \in Teams |-> 0],
                  !.roughZones = zones,
                  !.currentTeam = team,
                  !.isMyTurn = (team = g.myTeam),
                  !.state = "aiming",
                  !.sweepEnergy = MAX_SWEEP_ENERGY]

\* startEnd, zones being the result of generateRoughZones
startEnd(g, zones) ==
    LET team == IF g.hammer = 1 THEN 0 ELSE 1
    IN  [g EXCEPT !.stones = <<>>, !.sweepZones = <<>>,
                  !.stonesThrown = [t \in Teams |-> 0],
                  !.roughZones = zones,
                  !.currentTeam = team,
                  !.isMyTurn = (team = g.myTeam),
                  !.state = "aiming",
                  !.sweepEnergy = MAX_SWEEP_ENERGY]

showGameOver(g) ==
    [g EXCEPT !.gameOverTitle = IF g.scores[0] > g.scores[1] THEN "team1 Venceu!"
                                ELSE IF g.scores[1] > g.scores[0] THEN "team2 Venceu!"
                                ELSE "Empate!",
              !.state = "game_over"]

endEnd(g) ==
    LET result == calculateScore(g.stones)
        scored == IF result.team >= 0
                  THEN [g EXCEPT !.scores[result.team] = @ + result.points,
                                 !.hammer = IF result.team = 0 THEN 1 ELSE 0]
                  ELSE g
    IN  [scored EXCEPT !.state = "end_over",
                       !.currentEnd = @ + 1,
                       !.nextEndOnclick = IF g.currentEnd + 1 > g.totalEnds
                                          THEN "showGameOver" ELSE "startEnd",
                       !.endModal = TRUE]

nextTurn(g) ==
    LET totalThrown == g.stonesThrown[0] + g.stonesThrown[1]
        otherTeam == IF g.currentTeam = 0 THEN 1 ELSE 0
        team == IF g.stonesThrown[otherTeam] < StonesPerTeam THEN otherTeam
                ELSE g.currentTeam
    IN  IF totalThrown >= StonesPerEnd THEN endEnd(g)
        ELSE [g EXCEPT !.currentTeam = team,
                       !.state = "cooldown",
                       !.isMyTurn = (team = g.myTeam)]

\* launchStone with the velocity v it computed; id names the throw in the messages
launchStone(g, v, id) ==
    LET stone == [Stone(g.currentTeam, launchPos.x, launchPos.y)
                     EXCEPT !.vx = v[1], !.vy = v[2]]
        totalThrown == g.stonesThrown[0] + g.stonesThrown[1]
        launchAction == [type |-> "launch", team |-> g.currentTeam,
                         vx |-> stone.vx, vy |-> stone.vy,
                         hasRoughZones |-> (totalThrown = 0),
                         roughZones |-> IF totalThrown = 0 THEN g.roughZones ELSE <<>>,
                         throw |-> id]
    IN  [g |-> [g EXCEPT !.isLaunchOwner = TRUE,
                         !.preThrowPositions = Snapshot(g.stones),
                         !.stones = Append(g.stones, stone),
                         !.sweepZones = <<>>,
                         !.stonesThrown[g.currentTeam] = @ + 1,
                         !.state = "waiting",
                         !.sweepEnergy = MAX_SWEEP_ENERGY],
         out |-> <<launchAction>>]

\* what ++ leaves in a slot of an array that held no number
NaN == "NaN"

\* the array after arr[i]++: a slot that is not there is created and holds NaN
Incremented(arr, i) ==
    IF i \in DOMAIN arr THEN [arr EXCEPT ![i] = @ + 1] ELSE arr @@ (i :> NaN)

launchStoneFromAction(g, action) ==
    LET stone == [Stone(action.team, launchPos.x, launchPos.y)
                     EXCEPT !.vx = action.vx, !.vy = action.vy]
    IN  [g EXCEPT !.preThrowPositions = Snapshot(g.stones),
                  !.stones = Append(g.stones, stone),
                  !.sweepZones = <<>>,
                  !.stonesThrown = Incremented(@, action.team),
                  !.state = "waiting",
                  !.sweepEnergy = MAX_SWEEP_ENERGY]

\* an applyStoneSyncFromRemote that moves the stones it already holds and keeps
\* their own active flag
applyStoneSync_keepsActive(g, stonesData) ==
    [g EXCEPT !.stones =
        [i \in 1..Len(stonesData) |->
            [Stone(stonesData[i].team, stonesData[i].x, stonesData[i].y)
                EXCEPT !.vx = stonesData[i].vx, !.vy = stonesData[i].vy,
                       !.active = IF i <= Len(g.stones) THEN g.stones[i].active
                                  ELSE stonesData[i].active]]]

applyStoneSyncFromRemote(g, stonesData) ==
    [g EXCEPT !.stones =
        [i \in 1..Len(stonesData) |->
            [Stone(stonesData[i].team, stonesData[i].x, stonesData[i].y)
                EXCEPT !.vx = stonesData[i].vx, !.vy = stonesData[i].vy,
                       !.active = stonesData[i].active]]]

handleRemoteAction(g, action) ==
    CASE action.type = "launch" ->
            launchStoneFromAction(
                [g EXCEPT !.aimTarget = TRUE,
                          !.currentTeam = action.team,
                          !.roughZones = IF action.hasRoughZones THEN action.roughZones
                                         ELSE @],
                action)
      [] action.type = "sweep" ->
            [g EXCEPT !.sweepZones = addSweepZone(@, action.x, action.y)]
      [] action.type = "timeout" ->
            nextTurn([g EXCEPT !.stonesThrown = Incremented(@, action.team)])
      [] action.type = "sync-stones" ->
            applyStoneSyncFromRemote(g, action.stones)
      [] OTHER -> g

\* update(), the branch taken when the aim timer has run out (1635-1651)
updateAimTimeout(g) ==
    [g |-> nextTurn([g EXCEPT !.stonesThrown[g.currentTeam] = @ + 1,
                              !.isDragging = FALSE,
                              !.aimTarget = FALSE]),
     out |-> <<[type |-> "timeout", team |-> g.currentTeam]>>]

\* update(), the branch taken when the cooldown has elapsed (1654-1662)
updateCooldown(g) ==
    [g EXCEPT !.state = "aiming",
              !.sweepEnergy = MAX_SWEEP_ENERGY,
              !.sweepZones = <<>>]

\* update() in state waiting once physics.update has left the stones as moved
Settle(g, moved, id) ==
    IF anyMoving(moved) THEN [g |-> [g EXCEPT !.stones = moved], out |-> <<>>]
    ELSE [g |-> nextTurn([g EXCEPT
                    !.stones = checkHogLine(enforceFreeGuardZone(
                                   moved, g.preThrowPositions, g.stonesThrown,
                                   g.currentTeam)),
                    !.isLaunchOwner = FALSE,
                    !.isSweeping = FALSE]),
          out |-> IF g.isLaunchOwner
                  THEN <<[type |-> "sync-stones", stones |-> Snapshot(moved),
                          throw |-> id]>>
                  ELSE <<>>]

\* update(), one frame in state waiting (1664-1687)
updateWaiting(g, id) ==
    Settle(g, PhysicsUpdate(g.stones, g.sweepZones, g.roughZones, sheetBounds,
                            g.currentEnd), id)

\* the result u of a frame after the results r of the frames before it
After(r, u) == [g |-> u.g, out |-> r.out \o u.out]

\* n consecutive frames of update(): r is a manager and the messages sent so far
RECURSIVE RunFrames(_, _, _)
RunFrames(r, n, id) ==
    IF n = 0 \/ r.g.state # "waiting" THEN r
    ELSE IF n = 1 THEN After(r, updateWaiting(r.g, id))
    ELSE RunFrames(RunFrames(r, n \div 2, id), n - n \div 2, id)

\* the listener of btnNextEnd (1038-1041) followed by the onclick that endEnd
\* installed (1499-1511); z1 and z2 are what generateRoughZones draws
btnNextEnd(g, z1, z2) ==
    LET first == startEnd([g EXCEPT !.endModal = FALSE], z1)
    IN  IF g.nextEndOnclick = "showGameOver" THEN showGameOver(first)
        ELSE IF g.nextEndOnclick = "startEnd" THEN startEnd(first, z2)
        ELSE first

\* ------------------------------------------------------------------
\* The match of two peers over the relay
\* ------------------------------------------------------------------
VARIABLES
    gm,     \* gm[p]: the GameManager of peer p
    net,    \* net[p]: the player-action records relayed towards p, oldest first
    aux     \* history: counters of the bounds, the throw each peer is at, the
            \* ends each peer has begun, the peers that left the lobby, the throw
            \* each peer launched last and the sync-stones it sent since

vars == <<gm, net, aux>>

\* the two managers after the peer whose turn it is let its aim timer run out,
\* the other peer handled the relayed timeout and both cooldowns elapsed
AfterTimeout(pair) ==
    LET p == CHOOSE q \in Peers : pair[q].isMyTurn
        r == updateAimTimeout(pair[p])
    IN  [q \in Peers |->
            updateCooldown(IF q = p THEN r.g ELSE handleRemoteAction(pair[q], r.out[1]))]

RECURSIVE AfterTimeouts(_, _)
AfterTimeouts(pair, k) ==
    IF k = 0 THEN pair
    ELSE CHOOSE after \in
            { AfterTimeouts(next, k - 1) : next \in {AfterTimeout(pair)} } : TRUE

\* The match is followed from game-start, and from the last throw of the first
\* end when the players have let the clock run out until then.
Init ==
    /\ \E k \in SkippedThrows : \E z \in [Peers -> RoughZoneChoices] :
         gm = AfterTimeouts([p \in Peers |-> startEnd(NewGame(p), z[p])], k)
    /\ net = [p \in Peers |-> <<>>]
    /\ aux = [launches |-> 0, throws |-> 0, sweeps |-> 0,
              lastThrow |-> [p \in Peers |-> 0],
              synced |-> [p \in Peers |-> 0],
              ends |-> [p \in Peers |-> 1], left |-> {},
              launched |-> [p \in Peers |-> 0],
              syncsSent |-> [p \in Peers |-> 0]]

\* socket.emit('player-action') relayed by server.js 148-154 to the other member
Send(p, out) == [net EXCEPT ![Other(p)] = @ \o out]

\* mousedown / touchstart on the canvas (1184-1201)
onDown(p) ==
    LET g == gm[p] IN
    \/ /\ g.state = "aiming" /\ g.isMyTurn
       /\ aux.launches + aux.sweeps < MaxGestures /\ aux.throws < MaxThrows
       /\ ~g.isDragging
       /\ gm' = [gm EXCEPT ![p].isDragging = TRUE]
       /\ UNCHANGED <<net, aux>>
    \/ /\ ~(g.state = "aiming" /\ g.isMyTurn)
       /\ g.state = "waiting" /\ g.sweepEnergy > 0
       /\ aux.launches + aux.sweeps < MaxGestures
       /\ \E pt \in SweepPoints :
            gm' = [gm EXCEPT ![p].isSweeping = TRUE,
                             ![p].sweepZones = addSweepZone(@, pt.x, pt.y),
                             ![p].sweepEnergy =
                                 IF @ - SWEEP_DRAIN_RATE < 0 THEN 0 ELSE @ - SWEEP_DRAIN_RATE]
       /\ aux' = [aux EXCEPT !.sweeps = @ + 1]
       /\ UNCHANGED net

\* mousemove / touchmove on the canvas (1203-1251)
onMove(p) ==
    LET g == gm[p] IN
    \/ /\ g.state = "waiting"
       /\ g.isSweeping /\ g.sweepEnergy > 0
       /\ g.sweepEnergy > MAX_SWEEP_ENERGY - MaxStrokes * SWEEP_DRAIN_RATE
       /\ \E pt \in SweepPoints :
            LET energy == IF g.sweepEnergy - SWEEP_DRAIN_RATE < 0 THEN 0
                          ELSE g.sweepEnergy - SWEEP_DRAIN_RATE
            IN  /\ gm' = [gm EXCEPT ![p].sweepZones = addSweepZone(@, pt.x, pt.y),
                                    ![p].sweepEnergy = energy,
                                    ![p].isSweeping = (energy > 0)]
                /\ net' = Send(p, <<[type |-> "sweep", x |-> pt.x, y |-> pt.y,
                                     throw |-> aux.lastThrow[p]]>>)
       /\ UNCHANGED aux
    \/ /\ g.state = "aiming" /\ g.isDragging
       /\ ~g.aimTarget
       /\ gm' = [gm EXCEPT ![p].aimTarget = TRUE]
       /\ UNCHANGED <<net, aux>>

\* mouseup / touchend on the canvas (1253-1274)
onUp(p) ==
    LET g == gm[p] IN
    \/ /\ g.isSweeping
       /\ gm' = [gm EXCEPT ![p].isSweeping = FALSE]
       /\ UNCHANGED <<net, aux>>
    \/ /\ ~g.isSweeping
       /\ g.isDragging /\ g.state = "aiming" /\ g.isMyTurn
       /\ gm' = [gm EXCEPT ![p].isDragging = FALSE,
                           ![p].state = IF g.aimTarget THEN "aim_locked" ELSE @]
       /\ UNCHANGED <<net, aux>>

\* click on the launch button (1348-1353)
btnLaunch(p) ==
    /\ gm[p].state = "aim_locked"
    /\ aux.launches + aux.sweeps < MaxGestures /\ aux.throws < MaxThrows
    /\ \E v \in LaunchVelocities :
         LET r == launchStone(gm[p], v, aux.launches + 1)
         IN  /\ gm' = [gm EXCEPT ![p] = r.g]
             /\ net' = Send(p, r.out)
    /\ aux' = [aux EXCEPT !.launches = @ + 1, !.throws = @ + 1,
                          !.lastThrow[p] = aux.launches + 1,
                          !.launched[p] = aux.launches + 1,
                          !.syncsSent[p] = 0]

\* click on the cancel button (1356-1362)
btnCancelAim(p) ==
    /\ gm[p].state = "aim_locked"
    /\ gm' = [gm EXCEPT ![p].state = "aiming", ![p].aimTarget = FALSE]
    /\ UNCHANGED <<net, aux>>

\* a frame in which the aim timer is found expired
AimTimeout(p) ==
    /\ gm[p].state \in {"aiming", "aim_locked"} /\ gm[p].isMyTurn
    /\ aux.throws < MaxThrows
    /\ LET r == updateAimTimeout(gm[p])
       IN  /\ gm' = [gm EXCEPT ![p] = r.g]
           /\ net' = Send(p, r.out)
    /\ aux' = [aux EXCEPT !.throws = @ + 1]

\* a frame in which the cooldown is found elapsed
CooldownElapsed(p) ==
    /\ gm[p].state = "cooldown"
    /\ gm' = [gm EXCEPT ![p] = updateCooldown(gm[p])]
    /\ UNCHANGED <<net, aux>>

\* BurstFrames frames of the simulation of a throw, or fewer when it settles
Frames(p) ==
    /\ gm[p].state = "waiting"
    /\ LET r == RunFrames([g |-> gm[p], out |-> <<>>], BurstFrames, aux.lastThrow[p])
       IN  /\ gm' = [gm EXCEPT ![p] = r.g]
           /\ net' = Send(p, r.out)
           /\ aux' = [aux EXCEPT !.syncsSent[p] = @ + Len(r.out)]

\* click on the button of the end-of-end dialog
ClickNextEnd(p) ==
    /\ gm[p].endModal
    /\ \E z1, z2 \in RoughZoneChoices :
         gm' = [gm EXCEPT ![p] = btnNextEnd(gm[p], z1, z2)]
    /\ aux' = [aux EXCEPT !.lastThrow[p] = 0,
                          !.ends[p] = IF gm[p].nextEndOnclick = "startEnd" THEN @ + 1 ELSE @]
    /\ UNCHANGED net

\* socket.on('player-action') (775-777, 1013-1015): the oldest record arrives
Deliver(p) ==
    /\ net[p] # <<>>
    /\ LET action == Head(net[p])
       IN  /\ gm' = [gm EXCEPT ![p] = handleRemoteAction(gm[p], action)]
           /\ aux' = [aux EXCEPT
                  !.lastThrow[p] = IF action.type = "launch" THEN action.throw ELSE @,
                  !.synced[p] = IF action.type = "sync-stones" THEN action.throw ELSE @]
    /\ net' = [net EXCEPT ![p] = Tail(@)]

Next ==
    \E p \in Peers :
        \/ onDown(p)
        \/ onMove(p)
        \/ onUp(p)
        \/ btnLaunch(p)
        \/ btnCancelAim(p)
        \/ AimTimeout(p)
        \/ CooldownElapsed(p)
        \/ Frames(p)
        \/ ClickNextEnd(p)
        \/ Deliver(p)

Spec == Init /\ [][Next]_vars

\* ------------------------------------------------------------------
\* The last throw of an end with stones on the sheet, the players letting the
\* clock run out: the end transition for the ways an end can be scored
\* ------------------------------------------------------------------
\* the manager of the peer that handles the relayed launch and then, before its
\* own frames run on, the relayed sync-stones
Received(g, launch, sync) ==
    RunFrames([g |-> handleRemoteAction(handleRemoteAction(g, launch), sync),
               out |-> <<>>], BurstFrames, 0).g

\* the two managers after the peer whose turn it is launched with velocity v
\* and left the stone unswept until it came to rest, the other peer handled what
\* was relayed, and both cooldowns elapsed
AfterLaunch(pair, v) ==
    LET p == CHOOSE q \in Peers : pair[q].isMyTurn
        thrown == launchStone(pair[p], v, 0)
    IN  CHOOSE after \in UNION {
            { [q \in Peers |-> updateCooldown(IF q = p THEN own.g ELSE far)] :
                far \in {Received(pair[Other(p)], thrown.out[1], own.out[1])} } :
            own \in {RunFrames([g |-> thrown.g, out |-> <<>>], BurstFrames, 0)} } : TRUE

\* the two managers after the throws h[i], h[i+1], ...: a velocity is a launch,
\* the empty tuple is an aim timer left to run out
RECURSIVE AfterThrows(_, _, _)
AfterThrows(pair, h, i) ==
    IF i > Len(h) THEN pair
    ELSE CHOOSE after \in
            { AfterThrows(next, h, i + 1) :
                next \in {IF h[i] = <<>> THEN AfterTimeout(pair)
                          ELSE AfterLaunch(pair, h[i])} } : TRUE

TimedOut(n) == [i \in 1..n |-> <<>>]

\* the first 15 throws of the end: none, a stone of each team at mirrored
\* places in the house, one stone of team 0 in the house, one of team 1, one of
\* team 1 and a stone of team 0 short of the line, two stones of team 0
EndHistories ==
    { TimedOut(15),
      TimedOut(13) \o << <<-300, -9990>>, <<300, -9990>> >>,
      TimedOut(14) \o << <<0, -10000>> >>,
      TimedOut(13) \o << <<0, -10000>>, <<>> >>,
      TimedOut(13) \o << <<-300, -9990>>, <<0, -300>> >>,
      TimedOut(12) \o << <<300, -9990>>, <<>>, <<-300, -9990>> >> }

InitEnd ==
    /\ \E h \in EndHistories : \E z \in [Peers -> RoughZoneChoices] :
         gm = AfterThrows([p \in Peers |-> startEnd(NewGame(p), z[p])], h, 1)
    /\ net = [p \in Peers |-> <<>>]
    /\ aux = [launches |-> 0, throws |-> 0, sweeps |-> 0,
              lastThrow |-> [p \in Peers |-> 0],
              synced |-> [p \in Peers |-> 0],
              ends |-> [p \in Peers |-> 1], left |-> {},
              launched |-> [p \in Peers |-> 0],
              syncsSent |-> [p \in Peers |-> 0]]

NextEnd ==
    \E p \in Peers :
        \/ AimTimeout(p)
        \/ CooldownElapsed(p)
        \/ ClickNextEnd(p)
        \/ Deliver(p)

SpecEnd == InitEnd /\ [][NextEnd]_vars

\* ------------------------------------------------------------------
\* calculateScore on the stones an end can leave: the last throw of an end is an
\* aim timeout, the stones at rest are drawn from places on and around the house
\* ------------------------------------------------------------------
Placed(team, x, y, active) == [Stone(team, x, y) EXCEPT !.active = active]

\* two places at the same distance from the button, two farther in the house,
\* one on the edge of what counts as in the house, one outside
ScorePlaces ==
    { <<12000, 13000>>, <<12000, 11000>>, <<15000, 12000>>, <<12000, 17000>>,
      <<12000, 22400>>, <<12000, 30000>> }

\* a stone of either team at each place, and a retired stone near the button
ScoreStones ==
    {Placed(t, pl[1], pl[2], TRUE) : t \in Teams, pl \in ScorePlaces}
        \cup {Placed(t, 12000, 13000, FALSE) : t \in Teams}

\* up to MaxPlaced stones, no two at the same place
ScoreInputs ==
    UNION { {s \in [1..n -> ScoreStones] :
                \A i, j \in 1..n : i # j => (s[i].x # s[j].x \/ s[i].y # s[j].y)} :
            n \in 0..MaxPlaced }

InitScore ==
    /\ \E stones \in ScoreInputs : \E z \in [Peers -> RoughZoneChoices] :
         gm = [p \in Peers |->
                 [AfterTimeouts([q \in Peers |-> startEnd(NewGame(q), z[q])],
                                StonesPerEnd - 1)[p]
                     EXCEPT !.stones = stones]]
    /\ net = [p \in Peers |-> <<>>]
    /\ aux = [launches |-> 0, throws |-> 0, sweeps |-> 0,
              lastThrow |-> [p \in Peers |-> 0],
              synced |-> [p \in Peers |-> 0],
              ends |-> [p \in Peers |-> 1], left |-> {},
              launched |-> [p \in Peers |-> 0],
              syncsSent |-> [p \in Peers |-> 0]]

SpecScore == InitScore /\ [][NextEnd]_vars

\* ------------------------------------------------------------------
\* The rule enforcers on the frame a throw settles: throw n of an end (the
\* throws before it were aim timeouts that left the drawn stones in place), the
\* stones at rest drawn from what a hit on a guard can leave
\* ------------------------------------------------------------------
\* for a throw of team t: the stones before the throw and the stones at rest
\* after it, the thrown stone last.  A guard of the other team stands beside the
\* house; it is knocked off the sheet, pushed away, left alone, knocked off
\* while a second stone of its team lies in the house, or nudged.
RuleCases(t) ==
    LET guard == Placed(Other(t), 1000, 12000, TRUE)
        off == Placed(Other(t), -700, 9000, FALSE)
        second == Placed(Other(t), 12000, 13000, TRUE)
        thrown == Placed(t, 3000, 9000, TRUE)
    IN  { [pre |-> <<guard>>, after |-> <<off, thrown>>],
          [pre |-> <<guard>>, after |-> <<Placed(Other(t), 5000, 12000, TRUE), thrown>>],
          [pre |-> <<guard>>, after |-> <<guard, Placed(t, 12000, 30000, TRUE)>>],
          [pre |-> <<guard, second>>, after |-> <<off, second, thrown>>],
          [pre |-> <<guard>>, after |-> <<Placed(Other(t), 1150, 12000, TRUE), thrown>>] }

\* the two managers on the last frame of throw n: the launch was made and
\* handled with the stones c.pre on the sheet, the stones have come to c.after
AtRest(pair, c) ==
    LET p == CHOOSE q \in Peers : pair[q].isMyTurn
        before == [q \in Peers |-> [pair[q] EXCEPT !.stones = c.pre]]
        thrown == launchStone(before[p], <<0, -MAX_LAUNCH_SPEED>>, 1)
    IN  [q \in Peers |->
            [(IF q = p THEN thrown.g ELSE handleRemoteAction(before[q], thrown.out[1]))
                EXCEPT !.stones = c.after]]

InitRules ==
    /\ \E n \in 1..LastRuleThrow : \E z \in [Peers -> RoughZoneChoices] :
         LET pair == AfterTimeouts([p \in Peers |-> startEnd(NewGame(p), z[p])], n - 1)
             team == pair[0].currentTeam
         IN  \E c \in RuleCases(team) : gm = AtRest(pair, c)
    /\ net = [p \in Peers |-> <<>>]
    /\ aux = [launches |-> 1, throws |-> 1, sweeps |-> 0,
              lastThrow |-> [p \in Peers |-> 1],
              synced |-> [p \in Peers |-> 0],
              ends |-> [p \in Peers |-> 1], left |-> {},
              launched |-> [p \in Peers |-> IF gm[p].isLaunchOwner THEN 1 ELSE 0],
              syncsSent |-> [p \in Peers |-> 0]]

NextRules ==
    \E p \in Peers :
        \/ Frames(p)
        \/ Deliver(p)
        \/ CooldownElapsed(p)

SpecRules == InitRules /\ [][NextRules]_vars

\* ------------------------------------------------------------------
\* The match when generateRoughZones gives each peer patches of its own
\* ------------------------------------------------------------------
\* results of generateRoughZones at the two peers: Math.random is not shared
RoughZoneDraws ==
    RoughZoneChoices \cup
    { << [x |-> 12000, y |-> 40000, radius |-> 1500],
         [x |-> 8000, y |-> 60000, radius |-> 1000],
         [x |-> 18000, y |-> 25000, radius |-> 1700],
         [x |-> 6000, y |-> 80000, radius |-> 1100] >> }

InitZones ==
    /\ \E k \in SkippedThrows : \E z \in [Peers -> RoughZoneDraws] :
         gm = AfterTimeouts([p \in Peers |-> startEnd(NewGame(p), z[p])], k)
    /\ net = [p \in Peers |-> <<>>]
    /\ aux = [launches |-> 0, throws |-> 0, sweeps |-> 0,
              lastThrow |-> [p \in Peers |-> 0],
              synced |-> [p \in Peers |-> 0],
              ends |-> [p \in Peers |-> 1], left |-> {},
              launched |-> [p \in Peers |-> 0],
              syncsSent |-> [p \in Peers |-> 0]]

SpecZones == InitZones /\ [][Next]_vars

\* ------------------------------------------------------------------
\* The last ends of a match
\* ------------------------------------------------------------------
\* the two managers after the aim timeout that is the 16th throw of the end
LastTimeout(pair) ==
    LET p == CHOOSE q \in Peers : pair[q].isMyTurn
        r == updateAimTimeout(pair[p])
    IN  [q \in Peers |-> IF q = p THEN r.g ELSE handleRemoteAction(pair[q], r.out[1])]

\* the two managers after both players clicked the button of the end dialog
NextEndBoth(pair) ==
    LET z == CHOOSE c \in RoughZoneChoices : TRUE
    IN  [q \in Peers |-> btnNextEnd(pair[q], z, z)]

\* the two managers an end later, every throw of the end an aim timeout
BlankEnd(pair) ==
    CHOOSE after \in UNION {
        { NextEndBoth(over) : over \in {LastTimeout(last)} } :
            last \in {AfterTimeouts(pair, StonesPerEnd - 1)} } : TRUE

RECURSIVE BlankEnds(_, _)
BlankEnds(pair, n) ==
    IF n = 0 THEN pair
    ELSE CHOOSE after \in { BlankEnds(next, n - 1) : next \in {BlankEnd(pair)} } : TRUE

\* ends of the match that are over when it is followed
EndsPlayed == {totalEnds - 2, totalEnds - 1}

\* The match is followed from the last throw of one of its last two ends; its
\* first end was played as one of EndHistories and the ends between had no stone.
InitMatch ==
    /\ \E h \in EndHistories : \E n \in EndsPlayed :
         \E z \in [Peers -> RoughZoneChoices] :
           \E played \in {AfterThrows([p \in Peers |-> startEnd(NewGame(p), z[p])], h, 1)} :
           \E over \in {LastTimeout(played)} :
           \E first \in {NextEndBoth(over)} :
           \E last \in {BlankEnds(first, n - 1)} :
               gm = AfterTimeouts(last, StonesPerEnd - 1)
    /\ net = [p \in Peers |-> <<>>]
    /\ aux = [launches |-> 0, throws |-> 0, sweeps |-> 0,
              lastThrow |-> [p \in Peers |-> 0],
              synced |-> [p \in Peers |-> 0],
              ends |-> [p \in Peers |-> gm[p].currentEnd], left |-> {},
              launched |-> [p \in Peers |-> 0],
              syncsSent |-> [p \in Peers |-> 0]]

SpecMatch == InitMatch /\ [][NextEnd]_vars

\* ------------------------------------------------------------------
\* The match when a player leaves it
\* ------------------------------------------------------------------
\* the socket of peer q disconnects or leaves the lobby while the game is in
\* progress: leaveLobby of server.js notifies the other member
SocketLeaves(q) ==
    /\ aux.left = {}
    /\ gm[q].state \notin {"lobby", "game_over"}
    /\ net' = [net EXCEPT ![Other(q)] = Append(@, [type |-> "opponent-disconnected"])]
    /\ aux' = [aux EXCEPT !.left = {q}]
    /\ UNCHANGED gm

\* socket.on('opponent-disconnected') (783-785, 1023-1026)
onOpponentDisconnected(p) ==
    /\ net[p] # <<>> /\ Head(net[p]).type = "opponent-disconnected"
    /\ gm' = [gm EXCEPT ![p].disconnectModal = TRUE]
    /\ net' = [net EXCEPT ![p] = Tail(@)]
    /\ UNCHANGED aux

\* click on btnDisconnectBack (1028-1035), and leaveLobby at the server
btnDisconnectBack(p) ==
    /\ gm[p].disconnectModal
    /\ gm' = [gm EXCEPT ![p].disconnectModal = FALSE, ![p].state = "lobby"]
    /\ aux' = [aux EXCEPT !.left = @ \cup {p}]
    /\ UNCHANGED net

\* what a member of the lobby does; the disconnect dialog covers the sheet
NextLeave ==
    \E p \in Peers :
        \/ SocketLeaves(p)
        \/ onOpponentDisconnected(p)
        \/ btnDisconnectBack(p)
        \/ /\ p \notin aux.left
           /\ \/ AimTimeout(p)
              \/ CooldownElapsed(p)
              \/ Frames(p)
              \/ net[p] # <<>> /\ Head(net[p]).type # "opponent-disconnected" /\ Deliver(p)
              \/ /\ ~gm[p].disconnectModal
                 /\ \/ onDown(p)
                    \/ onMove(p)
                    \/ onUp(p)
                    \/ btnLaunch(p)
                    \/ btnCancelAim(p)
                    \/ ClickNextEnd(p)

SpecLeave == Init /\ [][NextLeave]_vars

\* ------------------------------------------------------------------
\* The match when the players press and click in every phase
\* ------------------------------------------------------------------
\* the listener of btnLaunch (1348-1353) with the velocity v launchStone computes
btnLaunchClick(g, v, id) ==
    IF g.state # "aim_locked" THEN [g |-> g, out |-> <<>>]
    ELSE launchStone(g, v, id)

\* a listener of btnCancelAim without the test of the phase
btnCancelAimClick_anyPhase(g) ==
    [g EXCEPT !.state = "aiming", !.aimTarget = FALSE]

\* the listener of btnCancelAim (1356-1362)
btnCancelAimClick(g) ==
    IF g.state # "aim_locked" THEN g
    ELSE [g EXCEPT !.state = "aiming", !.aimTarget = FALSE]

\* onDown (1184-1201) with the pointer at pt of the sheet
onDownAt(g, pt) ==
    IF g.state = "aiming" /\ g.isMyTurn THEN [g EXCEPT !.isDragging = TRUE]
    ELSE IF g.state = "waiting" /\ g.sweepEnergy > 0
    THEN [g EXCEPT !.isSweeping = TRUE,
                   !.sweepZones = addSweepZone(@, pt.x, pt.y),
                   !.sweepEnergy = IF @ - SWEEP_DRAIN_RATE < 0 THEN 0
                                   ELSE @ - SWEEP_DRAIN_RATE]
    ELSE g

\* click on the launch button in any phase
ClickLaunch(p) ==
    /\ gm[p].state = "aim_locked"
         => aux.launches + aux.sweeps < MaxGestures /\ aux.throws < MaxThrows
    /\ \E v \in LaunchVelocities :
         LET r == btnLaunchClick(gm[p], v, aux.launches + 1)
         IN  /\ gm' = [gm EXCEPT ![p] = r.g]
             /\ net' = Send(p, r.out)
             /\ aux' = IF r.out = <<>> THEN aux
                       ELSE [aux EXCEPT !.launches = @ + 1, !.throws = @ + 1,
                                        !.lastThrow[p] = aux.launches + 1,
                                        !.launched[p] = aux.launches + 1,
                                        !.syncsSent[p] = 0]

\* click on the cancel button in any phase
ClickCancelAim(p) ==
    /\ gm' = [gm EXCEPT ![p] = btnCancelAimClick(gm[p])]
    /\ UNCHANGED <<net, aux>>

\* mousedown / touchstart on the canvas in any phase
Press(p) ==
    /\ gm[p].state = "aiming" /\ gm[p].isMyTurn
         => /\ aux.launches + aux.sweeps < MaxGestures /\ aux.throws < MaxThrows
            /\ ~gm[p].isDragging
    /\ gm[p].state = "waiting" => aux.launches + aux.sweeps < MaxGestures
    /\ \E pt \in SweepPoints :
         gm' = [gm EXCEPT ![p] = onDownAt(gm[p], pt)]
    /\ aux' = IF gm'[p].sweepZones # gm[p].sweepZones \/ gm'[p].sweepEnergy # gm[p].sweepEnergy
              THEN [aux EXCEPT !.sweeps = @ + 1] ELSE aux
    /\ UNCHANGED net

NextIntents ==
    \E p \in Peers :
        \/ Press(p)
        \/ onMove(p)
        \/ onUp(p)
        \/ ClickLaunch(p)
        \/ ClickCancelAim(p)
        \/ AimTimeout(p)
        \/ CooldownElapsed(p)
        \/ Frames(p)
        \/ ClickNextEnd(p)
        \/ Deliver(p)

SpecIntents == Init /\ [][NextIntents]_vars

\* ------------------------------------------------------------------
\* The match when the relay forwards a record no game client builds
\* ------------------------------------------------------------------
\* records with a team that is not 0 or 1; server.js 148-154 forwards any record
MalformedActions ==
    { [type |-> "timeout", team |-> 2],
      [type |-> "launch", team |-> 2, vx |-> 0, vy |-> -300,
       hasRoughZones |-> FALSE, roughZones |-> <<>>, throw |-> 0] }

\* socket.on('player-action') (775-777, 1013-1015) for such a record, the first
\* that peer p handles
DeliverMalformed(p) ==
    /\ DOMAIN gm[p].stonesThrown = Teams
    /\ gm[p].state \notin {"lobby", "game_over"}
    /\ \E action \in MalformedActions :
         gm' = [gm EXCEPT ![p] = handleRemoteAction(gm[p], action)]
    /\ UNCHANGED <<net, aux>>

NextPayload ==
    \E p \in Peers :
        \/ AimTimeout(p)
        \/ CooldownElapsed(p)
        \/ Frames(p)
        \/ ClickNextEnd(p)
        \/ Deliver(p)
        \/ DeliverMalformed(p)

SpecPayload == Init /\ [][NextPayload]_vars

\* ------------------------------------------------------------------
\* The end of the match: the last ends are played out by aim timers, and a
\* peer that has reached game_over may go back to the room browser.
\* ------------------------------------------------------------------
MaxTimeouts == 6        \* aim timers that expire while the end of the match is followed

\* the aim timer of peer p expires (1635-1651)
TimerExpires(p) ==
    /\ gm[p].state \in {"aiming", "aim_locked"} /\ gm[p].isMyTurn
    /\ aux.throws < MaxTimeouts
    /\ LET r == updateAimTimeout(gm[p])
       IN  /\ gm' = [gm EXCEPT ![p] = r.g]
           /\ net' = Send(p, r.out)
    /\ aux' = [aux EXCEPT !.throws = @ + 1]

\* click on btnBackToLobby (1044-1051), and leaveLobby at the server
btnBackToLobby(p) ==
    /\ gm[p].state = "game_over"
    /\ gm' = [gm EXCEPT ![p].state = "lobby"]
    /\ aux' = [aux EXCEPT !.left = @ \cup {p}]
    /\ UNCHANGED net

NextOver ==
    \E p \in Peers :
        /\ p \notin aux.left
        /\ \/ TimerExpires(p)
           \/ CooldownElapsed(p)
           \/ ClickNextEnd(p)
           \/ Deliver(p)
           \/ btnBackToLobby(p)
           \/ onDown(p)
           \/ onMove(p)
           \/ onUp(p)
           \/ btnLaunch(p)
           \/ Frames(p)

SpecOver == InitMatch /\ [][NextOver]_vars

\* ------------------------------------------------------------------
\* THE RELAY (server.js) and the sockets of its clients.  In SpecRelay the
\* variables hold: net, the relay: its lobbies, the members of its rooms and the
\* events on their way to each socket; gm[s], the NetworkManager and the phase
\* of the client of socket s; aux, the requests made so far and the last one.
\* ------------------------------------------------------------------
NumSockets == 3         \* sockets that connect to the relay
NumLobbies == 2         \* lobbies of the relay (TOTAL_LOBBIES)
MaxRequests == 4        \* requests the sockets make while the relay is followed

Sockets == 1..NumSockets
Lobbies == 1..NumLobbies

\* the lobbies the relay starts with (server.js 25-34), no room having a member
NewRelay ==
    [lobbies |-> [l \in Lobbies |-> [players |-> <<>>, status |-> "waiting"]],
     rooms |-> [l \in Lobbies |-> {}],
     inbox |-> [s \in Sockets |-> <<>>]]

\* the sockets of the players of lobby l
MemberIds(R, l) == {R.lobbies[l].players[i].id : i \in 1..Len(R.lobbies[l].players)}

\* findLobbyByPlayer: the first lobby with the socket among its players, or 0
findLobbyByPlayer(R, socketId) ==
    IF \E l \in Lobbies : socketId \in MemberIds(R, l)
    THEN CHOOSE l \in Lobbies :
            /\ socketId \in MemberIds(R, l)
            /\ \A k \in Lobbies : socketId \in MemberIds(R, k) => l <= k
    ELSE 0

\* io.to(room).emit / socket.emit: the event is queued towards the sockets of to
Emit(R, to, event) ==
    [R EXCEPT !.inbox = [s \in Sockets |-> IF s \in to THEN Append(@[s], event) ELSE @[s]]]

\* a leaveLobby that leaves the team of the player who stays as it was
leaveLobby_keepsTeam(R, socket, l) ==
    LET lobby == R.lobbies[l]
        Stays(p) == p.id # socket
        room == R.rooms[l] \ {socket}
        told == IF lobby.status = "playing"
                THEN Emit(R, room, [type |-> "opponent-disconnected"]) ELSE R
    IN  IF socket \notin MemberIds(R, l) THEN R
        ELSE [told EXCEPT !.lobbies[l] = [players |-> SelectSeq(lobby.players, Stays),
                                          status |-> "waiting"],
                          !.rooms[l] = room]

\* leaveLobby (server.js 201-232)
leaveLobby(R, socket, l) ==
    LET lobby == R.lobbies[l]
        Stays(p) == p.id # socket
        kept == SelectSeq(lobby.players, Stays)
        room == R.rooms[l] \ {socket}
        told == IF lobby.status = "playing"
                THEN Emit(R, room, [type |-> "opponent-disconnected"]) ELSE R
        players == IF Len(kept) = 1 THEN <<[kept[1] EXCEPT !.team = 0]>> ELSE kept
    IN  IF socket \notin MemberIds(R, l) THEN R
        ELSE [told EXCEPT !.lobbies[l] = [players |-> players, status |-> "waiting"],
                          !.rooms[l] = room]

\* socket.on('join-lobby') (server.js 93-137)
onJoinLobby(R, socket, lobbyId) ==
    IF lobbyId \notin Lobbies THEN Emit(R, {socket}, [type |-> "join-error"])
    ELSE
    LET currentLobby == findLobbyByPlayer(R, socket)
        left == IF currentLobby # 0 THEN leaveLobby(R, socket, currentLobby) ELSE R
        lobby == left.lobbies[lobbyId]
        team == IF Len(lobby.players) = 0 THEN 0 ELSE 1
        players == Append(lobby.players, [id |-> socket, team |-> team])
        joined == Emit([left EXCEPT !.lobbies[lobbyId].players = players,
                                    !.rooms[lobbyId] = @ \cup {socket}],
                       {socket},
                       [type |-> "joined", team |-> team, lobbyId |-> lobbyId])
    IN  IF Len(lobby.players) >= 2 THEN Emit(left, {socket}, [type |-> "join-error"])
        ELSE IF Len(players) = 2
        THEN Emit([joined EXCEPT !.lobbies[lobbyId].status = "playing"],
                  joined.rooms[lobbyId],
                  [type |-> "game-start", players |-> players])
        ELSE joined

\* a relay of records that uses io.to, which reaches the sender as well
onRelayed_toAll(R, socket, record) ==
    LET lobby == findLobbyByPlayer(R, socket)
    IN  IF lobby = 0 THEN R ELSE Emit(R, R.rooms[lobby], record)

\* socket.on('player-action') and socket.on('game-state') (server.js 148-162)
onRelayed(R, socket, record) ==
    LET lobby == findLobbyByPlayer(R, socket)
    IN  IF lobby = 0 THEN R ELSE Emit(R, R.rooms[lobby] \ {socket}, record)

\* socket.on('game-over') (server.js 165-172)
onGameOver(R, socket) ==
    LET lobby == findLobbyByPlayer(R, socket)
    IN  IF lobby = 0 THEN R
        ELSE Emit([R EXCEPT !.lobbies[lobby].status = "finished"],
                  R.rooms[lobby], [type |-> "game-over-result"])

\* socket.on('return-to-lobby') (server.js 175-187)
onReturnToLobby(R, socket) ==
    LET lobby == findLobbyByPlayer(R, socket)
    IN  IF lobby = 0 THEN R ELSE [R EXCEPT !.lobbies[lobby].status = "waiting"]

\* socket.on('disconnect') (server.js 190-198); socket.io has emptied the rooms
\* of the socket and drops what was on its way to it
onDisconnect(R, socket) ==
    LET lobby == findLobbyByPlayer(R, socket)
        gone == [R EXCEPT !.rooms = [l \in Lobbies |-> @[l] \ {socket}],
                          !.inbox[socket] = <<>>]
    IN  IF lobby = 0 THEN gone ELSE leaveLobby(gone, socket, lobby)

\* the NetworkManager of a client that connected (733-745) and its phase
NewClient == [connected |-> TRUE, myTeam |-> -1, lobbyId |-> -1, state |-> "lobby"]

\* the client of a socket handles the event that reached it: the callback of
\* joinLobby (816-822), onGameStart (1005-1010) and startGame (1124-1158)
onEvent(c, event) ==
    CASE event.type = "joined" -> [c EXCEPT !.myTeam = event.team, !.lobbyId = event.lobbyId]
      [] event.type = "game-start" -> [c EXCEPT !.state = "aiming"]
      [] OTHER -> c

InitRelay ==
    /\ net = NewRelay
    /\ gm = [s \in Sockets |-> NewClient]
    /\ aux = [requests |-> 0, last |-> [type |-> "none", socket |-> 0], offered |-> TRUE]

\* socket s makes the request r, one more of the requests counted
Requests(s, r) ==
    /\ gm[s].connected
    /\ aux.requests < MaxRequests
    /\ aux' = [aux EXCEPT !.requests = @ + 1, !.last = [type |-> r, socket |-> s]]

\* the room browser offers lobby l to the client of socket s: the client is in
\* no lobby and the card of the lobby can be clicked (renderLobbies, 861-863)
Offered(s, l) ==
    /\ gm[s].state = "lobby"
    /\ l \in Lobbies /\ findLobbyByPlayer(net, s) = 0
    /\ Len(net.lobbies[l].players) < 2 /\ net.lobbies[l].status # "playing"

\* NetworkManager.joinLobby (815-823) and the relay handling it; aux.offered
\* records whether every join so far was one the room browser offered
JoinLobby(s) ==
    /\ gm[s].connected
    /\ aux.requests < MaxRequests
    /\ \E l \in Lobbies \cup {NumLobbies + 1} :
         /\ net' = onJoinLobby(net, s, l)
         /\ aux' = [requests |-> aux.requests + 1,
                    last |-> [type |-> "join-lobby", socket |-> s],
                    offered |-> aux.offered /\ Offered(s, l)]
    /\ UNCHANGED gm

\* NetworkManager.leaveLobby (825-829), called by the buttons that lead back to
\* the room browser (995-1000, 1028-1035, 1044-1051), and the relay handling it
LeaveLobby(s) ==
    /\ Requests(s, "leave-lobby")
    /\ net' = (IF findLobbyByPlayer(net, s) # 0
               THEN leaveLobby(net, s, findLobbyByPlayer(net, s)) ELSE net)
    /\ gm' = [gm EXCEPT ![s].myTeam = -1, ![s].lobbyId = -1, ![s].state = "lobby"]

\* sendAction / sendGameState (831-837) and the relay handling it
SendRecord(s) ==
    \E type \in {"player-action", "game-state"} :
        /\ Requests(s, type)
        /\ net' = onRelayed(net, s, [type |-> type, from |-> s, request |-> aux.requests])
        /\ UNCHANGED gm

\* sendGameOver (839-841) and the relay handling it
SendGameOver(s) ==
    /\ Requests(s, "game-over")
    /\ net' = onGameOver(net, s)
    /\ UNCHANGED gm

\* the match of the client of socket s runs to its end, every event sent to it
\* having reached it: showGameOver (1516-1535) shows the result and sends
\* game-over, which the relay handles
MatchOver(s) ==
    /\ gm[s].connected /\ gm[s].state = "aiming"
    /\ net.inbox[s] = <<>>
    /\ gm' = [gm EXCEPT ![s].state = "game_over"]
    /\ net' = onGameOver(net, s)
    /\ aux' = [aux EXCEPT !.last = [type |-> "game-over", socket |-> s]]

\* a socket emits return-to-lobby
ReturnToLobby(s) ==
    /\ Requests(s, "return-to-lobby")
    /\ net' = onReturnToLobby(net, s)
    /\ UNCHANGED gm

\* the page of socket s is closed or its connection is lost
Disconnect(s) ==
    /\ Requests(s, "disconnect")
    /\ net' = onDisconnect(net, s)
    /\ gm' = [gm EXCEPT ![s].connected = FALSE]

\* the oldest event on its way to socket s reaches its client
Receive(s) ==
    /\ gm[s].connected /\ net.inbox[s] # <<>>
    /\ gm' = [gm EXCEPT ![s] = onEvent(gm[s], Head(net.inbox[s]))]
    /\ net' = [net EXCEPT !.inbox[s] = Tail(@)]
    /\ aux' = [aux EXCEPT !.last = [type |-> Head(net.inbox[s]).type, socket |-> s]]

NextRelay ==
    \E s \in Sockets :
        \/ JoinLobby(s)
        \/ LeaveLobby(s)
        \/ SendRecord(s)
        \/ SendGameOver(s)
        \/ MatchOver(s)
        \/ ReturnToLobby(s)
        \/ Disconnect(s)
        \/ Receive(s)

SpecRelay == InitRelay /\ [][NextRelay]_vars

\* ------------------------------------------------------------------
\* Steps and quantities the properties speak of
\* ------------------------------------------------------------------
\* stonesThrown[0] + stonesThrown[1]
Thrown(g) == g.stonesThrown[0] + g.stonesThrown[1]

\* the step is peer p handling the oldest record relayed to it
Handles(p) == net[p] # <<>> /\ net'[p] = Tail(net[p])

\* the step makes peer p send a record, Sent(p)
Sends(p) == Len(net'[Other(p)]) = Len(net[Other(p)]) + 1
Sent(p) == net'[Other(p)][Len(net'[Other(p)])]

\* in the step peer p makes a throw of team t or handles the relayed one
ThrowBy(p, t) ==
    \/ /\ Handles(p)
       /\ Head(net[p]).type \in {"launch", "timeout"}
       /\ Head(net[p]).team = t
    \/ /\ Sends(p)
       /\ Sent(p).type \in {"launch", "timeout"}
       /\ Sent(p).team = t

\* in the step peer p runs its end transition
EndTransition(p) == gm'[p].currentEnd # gm[p].currentEnd

\* ------------------------------------------------------------------
\* Properties
\* ------------------------------------------------------------------
\* C1: for every throw, once the peer that did not throw has applied the
\* thrower's sync-stones and both peers have left the waiting phase of that
\* throw, the two stone collections are identical (length, and per index team,
\* position, velocity and active flag).
C1_StonesAgreeAfterSync ==
    \A q \in Peers :
        ( /\ aux.lastThrow[q] > 0
          /\ aux.lastThrow[Other(q)] = aux.lastThrow[q]
          /\ aux.synced[q] = aux.lastThrow[q]
          /\ gm[q].state # "waiting"
          /\ gm[Other(q)].state # "waiting" )
        => gm[q].stones = gm[Other(q)].stones

\* C2: a sync-stones (or sweep) record of throw n that arrives after the peer has
\* added the stone of a later throw is buffered or discarded: handling it changes
\* neither the peer's stones nor its swept patches.
C2_StaleRecordsNotApplied ==
    [][\A p \in Peers :
         ( /\ Handles(p)
           /\ Head(net[p]).type \in {"sync-stones", "sweep"}
           /\ Head(net[p]).throw < aux.lastThrow[p] )
         => /\ gm'[p].stones = gm[p].stones
            /\ gm'[p].sweepZones = gm[p].sweepZones]_vars

\* C3: handling a sync-stones record leaves the receiver with exactly the stones
\* of the payload (same count; per stone the same team, position, velocity and
\* active flag), whatever it held before, and handling the same record again
\* changes nothing.
C3_SyncReplacesStones ==
    [][\A p \in Peers :
         (Handles(p) /\ Head(net[p]).type = "sync-stones")
         => LET payload == Head(net[p]).stones
                after == gm'[p].stones
            IN  /\ Len(after) = Len(payload)
                /\ \A i \in 1..Len(payload) :
                     /\ after[i].team = payload[i].team
                     /\ after[i].x = payload[i].x /\ after[i].y = payload[i].y
                     /\ after[i].vx = payload[i].vx /\ after[i].vy = payload[i].vy
                     /\ after[i].active = payload[i].active
                /\ handleRemoteAction(gm'[p], Head(net[p])) = gm'[p]]_vars

\* C3's case: a peer that had retired a stone short of the centre line holds it
\* active again, as the payload it applied has it
C3_SyncOverwroteRetiredStone ==
    \E p \in Peers :
        /\ aux.synced[p] > 0
        /\ aux.synced[p] = aux.lastThrow[p]
        /\ gm[p].state # "waiting"
        /\ \E i \in 1..Len(gm[p].stones) :
             gm[p].stones[i].active /\ gm[p].stones[i].y > SHEET.centerLineY

\* C4: whenever both peers have run the end transition of the same end they
\* hold the same scores[0], scores[1] and hammer.
C4_SameResultAfterSameEnd ==
    gm[0].currentEnd = gm[1].currentEnd
        => /\ gm[0].scores = gm[1].scores
           /\ gm[0].hammer = gm[1].hammer

\* in the step peer p enters end_over
EntersEndOver(p) ==
    /\ gm'[p].state = "end_over"
    /\ (gm[p].state # "end_over" \/ EndTransition(p))

\* in the step peer p finishes with a throw: its simulation settles, or the aim
\* timer of the thrower ran out
FinishesThrow(p) ==
    \/ gm[p].state = "waiting" /\ gm'[p].state # "waiting"
    \/ /\ Handles(p) /\ Head(net[p]).type = "timeout"
    \/ /\ Sends(p) /\ Sent(p).type = "timeout"

\* C5: every throw of an end (launch or aim timeout) raises stonesThrown[0] +
\* stonesThrown[1] by exactly 1, and a peer enters end_over exactly when the sum
\* reaches 16: never with another sum, and always when it finishes the throw
\* that made the sum 16.
C5_ThrowCountAndEndOver ==
    [][\A p \in Peers :
         /\ (\E t \in Teams : ThrowBy(p, t)) => Thrown(gm'[p]) = Thrown(gm[p]) + 1
         /\ EntersEndOver(p) => Thrown(gm'[p]) = StonesPerEnd
         /\ (FinishesThrow(p) /\ Thrown(gm'[p]) = StonesPerEnd)
                => gm'[p].state = "end_over"]_vars

\* C6: in every reachable state of each peer, whatever its phase when a relayed
\* launch or timeout is handled, stonesThrown[0] + stonesThrown[1] <= 16.
C6_AtMostSixteenThrown ==
    \A p \in Peers : Thrown(gm[p]) <= StonesPerEnd

\* in the step peer p finishes with a throw of team t and the end goes on
ThrowDone(p, t) ==
    /\ gm'[p].state = "cooldown"
    /\ \/ /\ Handles(p) /\ Head(net[p]).type = "timeout" /\ Head(net[p]).team = t
       \/ /\ Sends(p) /\ Sent(p).type = "timeout" /\ Sent(p).team = t
       \/ /\ gm[p].state = "waiting" /\ ~Handles(p) /\ gm[p].currentTeam = t

\* a peer that is aiming has a team to throw that has stones left
C7_AimingTeamHasStones ==
    \A p \in Peers :
        gm[p].state \in {"aiming", "aim_locked"}
            => gm[p].stonesThrown[gm[p].currentTeam] < StonesPerTeam

\* C7: a team that has thrown 8 stones is never selected to throw again: a peer
\* in aiming or aim_locked has stonesThrown[currentTeam] < 8, and after each
\* throw the turn passes to the other team unless that team already has 8.
C7_TurnPassesToOtherTeam ==
    /\ []C7_AimingTeamHasStones
    /\ [][\A p \in Peers, t \in Teams :
            ThrowDone(p, t)
                => gm'[p].currentTeam =
                       IF gm'[p].stonesThrown[Other(t)] < StonesPerTeam
                       THEN Other(t) ELSE t]_vars

\* C8: in every end the first throw belongs to the team without the hammer and
\* the 16th throw belongs to the team with the hammer.
C8_HammerThrowsLast ==
    [][\A p \in Peers, t \in Teams :
         ThrowBy(p, t)
            => /\ Thrown(gm[p]) = 0 => t = Other(gm[p].hammer)
               /\ Thrown(gm[p]) = StonesPerEnd - 1 => t = gm[p].hammer]_vars

\* C9: at an end transition, if the end awards points to team t the hammer
\* becomes 1 - t, if it awards no points to either team the hammer is unchanged,
\* the points awarded are those of calculateScore, and currentEnd grows by 1.
C9_EndTransitionHammerAndScores ==
    [][\A p \in Peers :
         EndTransition(p)
            => LET awarded == [t \in Teams |-> gm'[p].scores[t] - gm[p].scores[t]]
                   result == calculateScore(gm'[p].stones)
               IN  /\ \A t \in Teams : awarded[t] > 0 => gm'[p].hammer = Other(t)
                   /\ (awarded[0] = 0 /\ awarded[1] = 0)
                          => gm'[p].hammer = gm[p].hammer
                   /\ \A t \in Teams :
                        awarded[t] = IF result.team = t THEN result.points ELSE 0
                   /\ gm'[p].currentEnd = gm[p].currentEnd + 1]_vars

\* C10: scores[0] and scores[1] are never negative, never decrease from one
\* state to the next, and change only in a step that is an end transition.
C10_ScoresGrowOnlyAtEndTransition ==
    /\ [](\A p \in Peers, t \in Teams : gm[p].scores[t] >= 0)
    /\ [][\A p \in Peers :
            /\ \A t \in Teams : gm'[p].scores[t] >= gm[p].scores[t]
            /\ gm'[p].scores # gm[p].scores => EndTransition(p)]_vars

\* C10's case: an end transition has awarded points
C10_PointsAwarded ==
    \E p \in Peers, t \in Teams : gm[p].scores[t] > 0 /\ gm[p].currentEnd > 1

\* the stones in the order f
Reordered(stones, f) == [i \in 1..Len(stones) |-> stones[f[i]]]

\* C11: calculateScore returns the same (team, points) for every permutation of
\* the same stones, stones of both teams at equal distance from the button
\* included.
C11_ScoreIgnoresOrder ==
    \A p \in Peers : \A f \in Permutations(1..Len(gm[p].stones)) :
        /\ calculateScore(Reordered(gm[p].stones, f)).team
               = calculateScore(gm[p].stones).team
        /\ calculateScore(Reordered(gm[p].stones, f)).points
               = calculateScore(gm[p].stones).points

\* the stones calculateScore considers: active, no farther from the button than
\* house radius + stone radius
Considered(stones) ==
    {i \in 1..Len(stones) :
        /\ stones[i].active
        /\ distSq(stones[i], houseCenter)
               <= (SHEET.houseRadius + STONE_RADIUS) * (SHEET.houseRadius + STONE_RADIUS)}

\* r is a result of the reference rule for the stones
ReferenceScore(stones, r) ==
    LET C == Considered(stones)
        d(i) == distSq(stones[i], houseCenter)
    IN  IF C = {} THEN r.team = -1 /\ r.points = 0
        ELSE /\ \E i \in C : stones[i].team = r.team /\ \A j \in C : d(i) <= d(j)
             /\ r.points = Cardinality({i \in C :
                                /\ stones[i].team = r.team
                                /\ \A k \in C : stones[k].team # r.team => d(i) < d(k)})

\* C12: for every stone set calculateScore equals the reference rule: only
\* active stones within house radius + stone radius count; none gives (none, 0);
\* otherwise the team owns the closest one and points is the number of its
\* counted stones strictly closer than the closest counted stone of the other
\* team.
C12_ScoreIsReferenceRule ==
    \A p \in Peers : ReferenceScore(gm[p].stones, calculateScore(gm[p].stones))

\* C12's case: an end was scored with counted stones of both teams, the closest
\* opposing stone cutting off a stone of the scoring team
C12_ScoredWithCutOff ==
    \E p \in Peers :
        /\ gm[p].state = "end_over"
        /\ calculateScore(gm[p].stones).team \in Teams
        /\ gm[p].scores[calculateScore(gm[p].stones).team] = 1
        /\ \E i, j \in Considered(gm[p].stones) :
             /\ i # j
             /\ gm[p].stones[i].team = calculateScore(gm[p].stones).team
             /\ gm[p].stones[j].team = calculateScore(gm[p].stones).team
        /\ \E k \in Considered(gm[p].stones) :
             gm[p].stones[k].team # calculateScore(gm[p].stones).team

\* in the step the simulation of peer p, its stones at rest, settles
SettlesAtRest(p) ==
    /\ gm[p].state = "waiting" /\ gm'[p].state # "waiting"
    /\ ~Handles(p)
    /\ \A i \in 1..Len(gm[p].stones) : gm[p].stones[i].vx = 0 /\ gm[p].stones[i].vy = 0

\* the snapshot entry pre is an active stone in the free guard zone
InFreeGuardZone(pre) ==
    /\ pre.active
    /\ pre.y <= SHEET.hogLineFromEnd
    /\ distSq(pre, houseCenter)
           > (SHEET.houseRadius + STONE_RADIUS) * (SHEET.houseRadius + STONE_RADIUS)

\* no stone of pre's team rests where pre stood (within 1 unit)
Missing(pre, stones) ==
    ~\E i \in 1..Len(stones) :
        /\ stones[i].team = pre.team
        /\ Abs(stones[i].x - pre.x) < 100 /\ Abs(stones[i].y - pre.y) < 100

\* no active stone of pre's team lies more than 2 units from where pre stood
NoneDisplaced(pre, stones) ==
    ~\E i \in 1..Len(stones) :
        /\ stones[i].team = pre.team /\ stones[i].active
        /\ (Abs(stones[i].x - pre.x) > 200 \/ Abs(stones[i].y - pre.y) > 200)

\* an active stone of pre's team stands at pre's coordinates with zero velocity
Recreated(pre, stones) ==
    \E i \in 1..Len(stones) :
        /\ stones[i].team = pre.team /\ stones[i].active
        /\ stones[i].x = pre.x /\ stones[i].y = pre.y
        /\ stones[i].vx = 0 /\ stones[i].vy = 0

\* C13: for throws 1 to 4 of an end, if an active pre-throw opponent stone in the
\* free guard zone is missing when the throw has settled and no displaced stone
\* of its team is found, then after enforcement an active stone of that team
\* stands at the exact pre-throw coordinates with zero velocity and the stone
\* just thrown is inactive.
C13_GuardRecreatedThrowerRetired ==
    [][\A p \in Peers :
         (SettlesAtRest(p) /\ Thrown(gm[p]) \in 1..FGZ_STONE_COUNT)
         => \A k \in 1..Len(gm[p].preThrowPositions) :
              LET pre == gm[p].preThrowPositions[k]
              IN  ( /\ pre.team # gm[p].currentTeam
                    /\ InFreeGuardZone(pre)
                    /\ Missing(pre, gm[p].stones)
                    /\ NoneDisplaced(pre, gm[p].stones) )
                  => /\ Recreated(pre, gm'[p].stones)
                     /\ ~gm'[p].stones[Len(gm[p].preThrowPositions) + 1].active]_vars

\* every stone of before is in after as it was, but for stones retired short of
\* the centre line
Untouched(before, after) ==
    /\ Len(after) = Len(before)
    /\ \A i \in 1..Len(before) :
         /\ after[i].x = before[i].x /\ after[i].y = before[i].y
         /\ after[i].vx = before[i].vx /\ after[i].vy = before[i].vy
         /\ after[i].team = before[i].team
         /\ (after[i].active = before[i].active \/ before[i].y > SHEET.centerLineY)

\* the snapshot entry pre is a guard of the team that did not throw, gone from
\* where it stood
GuardGone(pre, stones, thrower) ==
    pre.team # thrower /\ InFreeGuardZone(pre) /\ Missing(pre, stones)

\* a stone of the guard's team was put where some guard of the snapshot stood
PutBack(pres, thrower, before, after) ==
    \E k \in 1..Len(pres) : \E i \in 1..Len(after) :
        /\ pres[k].team # thrower /\ InFreeGuardZone(pres[k])
        /\ after[i].team = pres[k].team
        /\ after[i].x = pres[k].x /\ after[i].y = pres[k].y
        /\ after[i].vx = 0 /\ after[i].vy = 0
        /\ (i > Len(before) \/ before[i].x # after[i].x \/ before[i].y # after[i].y)

\* C14: free-guard-zone enforcement changes stones only for the first 4 throws
\* of an end: a throw that settles with stonesThrown[0] + stonesThrown[1] > 4
\* leaves every stone as it settled, and a throw among the first 4 that settles
\* with a guard gone has a stone put back where a guard stood.
C14_EnforcedOnlyFirstFourThrows ==
    [][\A p \in Peers :
         SettlesAtRest(p)
         => /\ Thrown(gm[p]) > FGZ_STONE_COUNT => Untouched(gm[p].stones, gm'[p].stones)
            /\ ( /\ Thrown(gm[p]) \in 1..FGZ_STONE_COUNT
                 /\ \E k \in 1..Len(gm[p].preThrowPositions) :
                      GuardGone(gm[p].preThrowPositions[k], gm[p].stones, gm[p].currentTeam) )
               => PutBack(gm[p].preThrowPositions, gm[p].currentTeam,
                          gm[p].stones, gm'[p].stones)]_vars

\* a throw after the fourth has settled with a guard gone and no stone put back
C14_LateThrowLeftGuardGone ==
    \E p \in Peers :
        /\ gm[p].state = "cooldown" /\ Thrown(gm[p]) > FGZ_STONE_COUNT
        /\ \E k \in 1..Len(gm[p].preThrowPositions) :
             GuardGone(gm[p].preThrowPositions[k], gm[p].stones, Other(gm[p].currentTeam))

\* C15: at any moment at which either peer is simulating a throw (phase
\* waiting) and every relayed record has arrived, both peers hold the same
\* rough-zone set.
C15_SameRoughZonesWhileSimulating ==
    \A p \in Peers :
        (gm[p].state = "waiting" /\ \A q \in Peers : net[q] = <<>>)
        => gm[0].roughZones = gm[1].roughZones

\* C16: once an aim timeout has been processed by the peer whose timer expired
\* and by the peer that received the timeout record, with no other record on
\* its way and no end started since by the peer whose timer expired, both peers
\* have the same stonesThrown and the same currentTeam, and the timeout changed
\* the stones of neither peer.
C16_TimeoutKeepsPeersInStep ==
    [][\A p \in Peers :
         /\ (Sends(p) /\ Sent(p).type = "timeout") => gm'[p].stones = gm[p].stones
         /\ (Handles(p) /\ Head(net[p]).type = "timeout")
            => /\ gm'[p].stones = gm[p].stones
               /\ ((\A q \in Peers : net'[q] = <<>>) /\ Thrown(gm'[Other(p)]) > 0)
                  => /\ gm'[p].stonesThrown = gm'[Other(p)].stonesThrown
                     /\ gm'[p].currentTeam = gm'[Other(p)].currentTeam]_vars

\* C17: from end_over the phase of a peer changes only to aiming, when
\* currentEnd <= totalEnds, or to game_over, when currentEnd > totalEnds,
\* whatever record arrives.
C17_EndOverLeadsToAimingOrGameOver ==
    [][\A p \in Peers :
         (gm[p].state = "end_over" /\ gm'[p].state # "end_over")
         => \/ gm'[p].state = "aiming" /\ gm[p].currentEnd <= gm[p].totalEnds
            \/ gm'[p].state = "game_over" /\ gm[p].currentEnd > gm[p].totalEnds]_vars

\* in the step peer p enters game_over
EntersGameOver(p) == gm[p].state # "game_over" /\ gm'[p].state = "game_over"

\* the result that goes with the aggregate scores
ResultOf(scores) ==
    IF scores[0] > scores[1] THEN "team1 Venceu!"
    ELSE IF scores[1] > scores[0] THEN "team2 Venceu!"
    ELSE "Empate!"

\* C18 (the result): the result declared on entering game_over is the team with
\* the strictly larger aggregate score, or a tie when the scores are equal.
C18_DeclaredResult ==
    [][\A p \in Peers :
         EntersGameOver(p) => gm'[p].gameOverTitle = ResultOf(gm'[p].scores)]_vars

\* C18: a peer enters game_over only when its end counter exceeds totalEnds, that
\* is when exactly totalEnds ends have been begun and scored at that peer, and
\* the declared result is the team with the strictly larger aggregate score, or
\* a tie when the scores are equal.
C18_GameOverAfterTotalEnds ==
    [][\A p \in Peers :
         EntersGameOver(p)
         => /\ gm[p].currentEnd > gm[p].totalEnds
            /\ gm[p].currentEnd - 1 = gm[p].totalEnds
            /\ aux.ends[p] = gm[p].totalEnds
            /\ gm'[p].gameOverTitle = ResultOf(gm'[p].scores)]_vars

\* in the step the user of peer p acknowledges the disconnect
Acknowledges(p) == gm[p].disconnectModal /\ ~gm'[p].disconnectModal

\* C19: after a peer received opponent-disconnected during a match the match is
\* halted: its phase, stonesThrown, currentTeam, stones and scores do not change
\* until the user acknowledges the disconnect, and then the phase is lobby.
C19_MatchHaltedAfterDisconnect ==
    [][\A p \in Peers :
         gm[p].disconnectModal
         => IF Acknowledges(p) THEN gm'[p].state = "lobby"
            ELSE /\ gm'[p].state = gm[p].state
                 /\ gm'[p].stonesThrown = gm[p].stonesThrown
                 /\ gm'[p].currentTeam = gm[p].currentTeam
                 /\ gm'[p].stones = gm[p].stones
                 /\ gm'[p].scores = gm[p].scores]_vars

\* a click on the launch button or on the cancel button in a phase other than
\* aim_locked changes nothing of g and sends nothing
ClicksIgnored(g) ==
    g.state # "aim_locked"
    => /\ \A v \in LaunchVelocities : btnLaunchClick(g, v, 0) = [g |-> g, out |-> <<>>]
       /\ btnCancelAimClick(g) = g

C21_MalformedPayloadIgnored ==
    \A p \in Peers :
        /\ DOMAIN gm[p].stonesThrown = Teams
        /\ \A t \in Teams : gm[p].stonesThrown[t] \in 0..StonesPerTeam
        /\ gm[p].currentTeam \in Teams
        /\ \A i \in 1..Len(gm[p].stones) : gm[p].stones[i].team \in Teams

\* in the step peer p sends a sync-stones record
SendsSync(p) == Sends(p) /\ Sent(p).type = "sync-stones"

\* C22 (the sender): a sync-stones record is sent only by the peer that launched
\* the throw it is sent for, once for that throw, in the step in which the
\* simulation of that peer settles.
C22_SyncOnlyByLauncher ==
    [][\A p \in Peers :
         SendsSync(p)
         => /\ aux.launched[p] > 0 /\ Sent(p).throw = aux.launched[p]
            /\ aux.syncsSent[p] = 0
            /\ gm[p].state = "waiting" /\ gm'[p].state # "waiting"
            /\ ~anyMoving(Sent(p).stones)]_vars

\* C22 (the record is sent): a peer that launched the throw it is at and is no
\* longer simulating it has sent one sync-stones record for it.
C22_LauncherHasSynced ==
    \A p \in Peers :
        ( /\ aux.launched[p] > 0 /\ aux.lastThrow[p] = aux.launched[p]
          /\ gm[p].state # "waiting" )
        => aux.syncsSent[p] = 1

\* C22: for each launched throw exactly one sync-stones record is sent, by the
\* peer that launched it and only after the simulation of that peer has settled;
\* a peer never sends sync-stones for a throw it did not launch.
C22_OneSyncPerLaunchedThrow == C22_SyncOnlyByLauncher /\ []C22_LauncherHasSynced

\* ------------------------------------------------------------------
\* Properties of the relay
\* ------------------------------------------------------------------
\* the event queued last
Newest(queue) == queue[Len(queue)]

\* the sockets towards which the step queued an event
Reached == {r \in Sockets : Len(net'.inbox[r]) > Len(net.inbox[r])}

\* the step is the relay handling a player-action or game-state record of s
Relays(s) ==
    /\ aux'.requests = aux.requests + 1
    /\ aux'.last.socket = s
    /\ aux'.last.type \in {"player-action", "game-state"}

\* C23: the relay queues a player-action or game-state record sent by a member
\* of a lobby towards the other member of that lobby, once and unchanged, and
\* towards no other socket: never the sender, never a socket of another lobby,
\* and towards no socket at all when the sender is in no lobby.
C23_RelayedToOtherMemberOnly ==
    [][\A s \in Sockets :
         Relays(s)
         => LET lobby == findLobbyByPlayer(net, s)
            IN  /\ Reached = (IF lobby = 0 THEN {} ELSE MemberIds(net, lobby) \ {s})
                /\ \A r \in Reached :
                     /\ net'.inbox[r] = Append(net.inbox[r], Newest(net'.inbox[r]))
                     /\ Newest(net'.inbox[r]).type = aux'.last.type
                     /\ Newest(net'.inbox[r]).from = s]_vars

\* a record of a member of a full lobby, a third socket being elsewhere, has
\* reached the other member
C23_RecordReachedOtherMember ==
    /\ aux.last.type = "player-action"
    /\ \E l \in Lobbies, r \in Sockets :
         /\ MemberIds(net, l) = {aux.last.socket, r} /\ r # aux.last.socket
         /\ net.inbox[r] # <<>> /\ Newest(net.inbox[r]).type = "player-action"
         /\ Newest(net.inbox[r]).from = aux.last.socket
         /\ \E o \in Sockets \ MemberIds(net, l) : findLobbyByPlayer(net, o) # 0

\* the teams of the players of lobby l
TeamsOf(l) == {net.lobbies[l].players[i].team : i \in 1..Len(net.lobbies[l].players)}

\* C24: in every state of the relay each lobby holds at most 2 players, each
\* socket is a player of at most one lobby and at most once, the two players of
\* a full lobby have the team ids 0 and 1, and a lobby with status playing
\* holds exactly 2 players.
C24_LobbyInvariants ==
    /\ \A l \in Lobbies :
         /\ Len(net.lobbies[l].players) <= 2
         /\ Cardinality(MemberIds(net, l)) = Len(net.lobbies[l].players)
         /\ Len(net.lobbies[l].players) = 2 => TeamsOf(l) = {0, 1}
         /\ net.lobbies[l].status = "playing" => Len(net.lobbies[l].players) = 2
    /\ \A s \in Sockets : Cardinality({l \in Lobbies : s \in MemberIds(net, l)}) <= 1

\* a lobby that a player left while it was playing has been filled again and
\* plays, the third socket having been refused or being elsewhere
C24_LobbyRefilledAndPlaying ==
    /\ aux.last.type = "join-lobby"
    /\ \E l \in Lobbies :
         /\ net.lobbies[l].status = "playing"
         /\ aux.last.socket \in MemberIds(net, l)
         /\ \E o \in Sockets \ MemberIds(net, l) :
              \E i \in 1..Len(net.inbox[o]) : net.inbox[o][i].type = "game-start"

\* the step is the client of socket s handling the game-start event of a match
\* that the relay still holds as started, with the players of the event, in the
\* lobby the client joined, no later game-start being on its way and every
\* join so far having been offered by the room browser
StartsMatch(s) ==
    /\ gm[s].connected /\ net.inbox[s] # <<>>
    /\ Head(net.inbox[s]).type = "game-start"
    /\ net'.inbox[s] = Tail(net.inbox[s])
    /\ aux'.last = [type |-> "game-start", socket |-> s]
    /\ gm'[s].state = "aiming"
    /\ aux.offered
    /\ \A i \in 2..Len(net.inbox[s]) : net.inbox[s][i].type # "game-start"
    /\ \E l \in Lobbies : /\ net.lobbies[l].status = "playing"
                          /\ net.lobbies[l].players = Head(net.inbox[s]).players
                          /\ gm[s].lobbyId = l

\* socket o has a game-start event still on its way
StartPending(o) == \E i \in 1..Len(net.inbox[o]) : net.inbox[o][i].type = "game-start"

\* C29: when the client of a socket starts a match, its myTeam is the team the
\* relay recorded for that socket in the game-start event, and it differs from
\* the myTeam of the other player of the event if that one has started the
\* match as well; this includes a lobby filled again after a member left.
C29_MyTeamIsRelayTeam ==
    [][\A s \in Sockets :
         StartsMatch(s)
         => LET players == Head(net.inbox[s]).players
            IN  \A i, j \in 1..Len(players) :
                  (players[i].id = s /\ j # i)
                  => /\ gm'[s].myTeam = players[i].team
                     /\ ( /\ gm[players[j].id].connected
                          /\ gm[players[j].id].state = "aiming"
                          /\ ~StartPending(players[j].id) )
                        => gm'[s].myTeam # gm[players[j].id].myTeam]_vars

\* ------------------------------------------------------------------
\* Properties of the two peers of a match
\* ------------------------------------------------------------------
\* no record is on its way to either peer
NothingInFlight == \A q \in Peers : net[q] = <<>>

\* C25: whenever both peers are in aiming, in the same end of the match and
\* with no record still on its way to either, exactly one of them has isMyTurn.
C25_ExactlyOneTurnHolder ==
    ( /\ \A p \in Peers : gm[p].state = "aiming"
      /\ gm[0].currentEnd = gm[1].currentEnd
      /\ NothingInFlight )
    => Cardinality({p \in Peers : gm[p].isMyTurn}) = 1

\* C26: at most one peer holds isLaunchOwner at a time, and from a peer's launch
\* until it sends the sync-stones of that throw the other peer never holds it.
C26_AtMostOneLaunchOwner ==
    /\ Cardinality({p \in Peers : gm[p].isLaunchOwner}) <= 1
    /\ \A p \in Peers :
         (aux.launched[p] > 0 /\ aux.syncsSent[p] = 0) => ~gm[Other(p)].isLaunchOwner

\* C27: whenever a peer is in cooldown, aiming, aim_locked or end_over, none of
\* its active stones lies short of the centre line (y > centerLineY).
C27_NoActiveStoneShortOfCentreLine ==
    \A p \in Peers :
        gm[p].state \in {"cooldown", "aiming", "aim_locked", "end_over"}
        => \A i \in 1..Len(gm[p].stones) :
              ~(gm[p].stones[i].active /\ gm[p].stones[i].y > SHEET.centerLineY)

\* in the step peer p starts an end: startEnd empties the stones (1160-1162)
StartsEnd(p) ==
    /\ gm[p].endModal /\ ~gm'[p].endModal
    /\ gm'[p].state = "aiming"
    /\ gm'[p].stones = <<>> /\ Thrown(gm'[p]) = 0

\* C28: within an end no stone is removed from a peer's collection: the length
\* of stones never decreases in a step other than the start of an end.
C28_StonesNeverRemovedWithinEnd ==
    [][\A p \in Peers :
         Len(gm'[p].stones) < Len(gm[p].stones) => StartsEnd(p)]_vars

\* C30 (the peers' part): a peer that is in game_over stays in game_over and
\* keeps its stonesThrown and scores in every step of a relayed record or a
\* timer, until its user goes back to the room browser.  It holds in SpecOver,
\* where sync-stones records reach a peer in game_over.
C30_GameOverIsFinal ==
    [][\A p \in Peers :
         gm[p].state = "game_over"
         => \/ /\ gm'[p].state = "game_over"
               /\ gm'[p].stonesThrown = gm[p].stonesThrown
               /\ gm'[p].scores = gm[p].scores
            \/ /\ gm'[p] = [gm[p] EXCEPT !.state = "lobby"]
               /\ net' = net /\ p \in aux'.left]_vars

\* a record is on its way to a peer that is in game_over
C30_RecordArrivesAfterGameOver ==
    \E p \in Peers : gm[p].state = "game_over" /\ net[p] # <<>>

\* in the step the user of socket s goes back to the room browser (1044-1051)
ReturnsToBrowser(s) ==
    /\ gm'[s].state = "lobby" /\ gm'[s].myTeam = -1
    /\ aux'.last = [type |-> "leave-lobby", socket |-> s]

\* C30 (the relay's part): the client of a socket that is in game_over stays in
\* game_over in every step but the one in which its user goes back to the room
\* browser, whatever the relay sends to it; the client is still in the lobby of
\* its match and every join so far was offered by the room browser.
C30_GameOverUntilReturn ==
    [][\A s \in Sockets :
         ( /\ gm[s].state = "game_over" /\ gm[s].connected
           /\ findLobbyByPlayer(net, s) = gm[s].lobbyId
           /\ aux.offered )
         => (gm'[s].state = "game_over" \/ ReturnsToBrowser(s))]_vars

\* ------------------------------------------------------------------
\* Properties of the rules, the sweeping and the physics
\* ------------------------------------------------------------------
\* the settled stone s is as its entry pre of the pre-throw snapshot
AsSnapshot(s, pre) ==
    /\ s.team = pre.team /\ s.x = pre.x /\ s.y = pre.y
    /\ s.vx = pre.vx /\ s.vy = pre.vy /\ s.active = pre.active

\* C31: on the frame a throw settles, a stone whose team, position, velocity and
\* active flag equal its entry of the pre-throw snapshot is left as it is by the
\* enforcement of the free guard zone (the hog-line check of the same frame may
\* retire it when it lies short of the centre line).
C31_EnforcementLeavesUnaffectedStones ==
    [][\A p \in Peers :
         SettlesAtRest(p)
         => \A k \in 1..Len(gm[p].preThrowPositions) :
              (k <= Len(gm[p].stones) /\ AsSnapshot(gm[p].stones[k], gm[p].preThrowPositions[k]))
              => /\ gm'[p].stones[k].team = gm[p].stones[k].team
                 /\ gm'[p].stones[k].x = gm[p].stones[k].x
                 /\ gm'[p].stones[k].y = gm[p].stones[k].y
                 /\ gm'[p].stones[k].vx = gm[p].stones[k].vx
                 /\ gm'[p].stones[k].vy = gm[p].stones[k].vy
                 /\ \/ gm'[p].stones[k].active = gm[p].stones[k].active
                    \/ gm[p].stones[k].y > SHEET.centerLineY]_vars

\* the active stones of team t in a collection
ActiveOf(stones, t) == {i \in 1..Len(stones) : stones[i].active /\ stones[i].team = t}

\* C32: in every state and for each team, a peer's collection holds at most
\* stonesThrown[team] active stones of that team, hence at most 8.
C32_ActiveStonesWithinThrown ==
    \A p \in Peers : \A t \in Teams :
        /\ Cardinality(ActiveOf(gm[p].stones, t)) <= gm[p].stonesThrown[t]
        /\ Cardinality(ActiveOf(gm[p].stones, t)) <= StonesPerEnd \div 2

\* C33: whenever calculateScore returns a scoring team for a peer's stones it
\* returns at least 1 point, and a step changes a peer's hammer only when the
\* score of some team strictly increases in it.
C33_ScoringTeamScoresAndHammerFollows ==
    [][\A p \in Peers :
         /\ calculateScore(gm[p].stones).team \in Teams
               => calculateScore(gm[p].stones).points >= 1
         /\ gm'[p].hammer # gm[p].hammer
               => \E t \in Teams : gm'[p].scores[t] > gm[p].scores[t]]_vars

\* in the step the relay refuses a join-lobby request of socket s
JoinRefused(s) ==
    /\ aux'.requests = aux.requests + 1
    /\ aux'.last = [type |-> "join-lobby", socket |-> s]
    /\ Len(net'.inbox[s]) = Len(net.inbox[s]) + 1
    /\ Newest(net'.inbox[s]).type = "join-error"

\* C34: a join-lobby request that the relay refuses (lobby full or not found)
\* leaves the lobby of the requesting socket and the players and status of
\* every lobby as they were.
C34_RefusedJoinChangesNothing ==
    [][\A s \in Sockets :
         JoinRefused(s)
         => /\ findLobbyByPlayer(net', s) = findLobbyByPlayer(net, s)
            /\ net'.lobbies = net.lobbies]_vars

\* the stones of the set S retired as the code retires a stone (175-182,
\* 1755-1760): inactive and without velocity
Retired(stones, S) ==
    [i \in 1..Len(stones) |->
        IF i \in S THEN [stones[i] EXCEPT !.active = FALSE, !.vx = 0, !.vy = 0]
        ELSE stones[i]]

IsActive(s) == s.active

\* the place of the active stone i among the active stones of a collection
RankOfActive(stones, i) == Cardinality({k \in 1..i : stones[k].active})

\* one frame of the physics on the stones st of manager g moves no inactive
\* stone, and moves the active stones as it moves them on their own
TickIgnoresInactive(g, st) ==
    LET after == PhysicsUpdate(st, g.sweepZones, g.roughZones, sheetBounds, g.currentEnd)
        alone == PhysicsUpdate(SelectSeq(st, IsActive), g.sweepZones, g.roughZones,
                               sheetBounds, g.currentEnd)
    IN  /\ Len(after) = Len(st)
        /\ \A i \in 1..Len(st) :
             IF st[i].active THEN after[i] = alone[RankOfActive(st, i)]
             ELSE after[i] = st[i]

\* C35: inactive stones are excluded from physics and scoring.  In every state,
\* for the stones of each peer and for the same stones with any of them retired,
\* a frame of the physics leaves every inactive stone as it is and moves the
\* active stones as it would without the inactive ones, and calculateScore
\* returns what it returns for the active stones alone.
C35_InactiveStonesExcluded ==
    \A p \in Peers : \A S \in SUBSET (1..Len(gm[p].stones)) :
        LET st == CHOOSE c \in {Retired(gm[p].stones, S)} : TRUE
        IN  /\ TickIgnoresInactive(gm[p], st)
            /\ calculateScore(st) = calculateScore(SelectSeq(st, IsActive))

\* a thrown stone is under way on top of a retired one: were the retired stone
\* active, the frame would resolve a collision of the two
C35_ThrownOverRetiredStone ==
    \E p \in Peers : \E i, j \in 1..Len(gm[p].stones) :
        /\ gm[p].state = "waiting"
        /\ ~gm[p].stones[i].active
        /\ gm[p].stones[j].active /\ isMoving(gm[p].stones[j])
        /\ DistLess(gm[p].stones[i].x - gm[p].stones[j].x,
                    gm[p].stones[i].y - gm[p].stones[j].y, STONE_RADIUS + STONE_RADIUS)

\* ------------------------------------------------------------------
\* The match when a player sweeps until the energy of the throw is used up
\* ------------------------------------------------------------------
MaxSweepThrows == 2
MaxSweepInputs == 2

\* the numbers of mousemove events of a stroke of the pointer
StrokeLengths == {1, 66}

\* an onMove that takes SWEEP_DRAIN_RATE from the energy it finds, as far as it goes
onMoveAt_noFloor(g, pt, id) ==
    IF g.state = "waiting"
    THEN IF g.isSweeping /\ g.sweepEnergy > 0
         THEN [g |-> [g EXCEPT !.sweepZones = addSweepZone(@, pt.x, pt.y),
                               !.sweepEnergy = @ - SWEEP_DRAIN_RATE,
                               !.isSweeping = (g.sweepEnergy - SWEEP_DRAIN_RATE > 0)],
               out |-> <<[type |-> "sweep", x |-> pt.x, y |-> pt.y, throw |-> id]>>]
         ELSE [g |-> g, out |-> <<>>]
    ELSE IF ~g.isDragging \/ g.state # "aiming" THEN [g |-> g, out |-> <<>>]
    ELSE [g |-> [g EXCEPT !.aimTarget = TRUE], out |-> <<>>]

\* onMove (1203-1251) with the pointer at pt of the sheet
onMoveAt(g, pt, id) ==
    IF g.state = "waiting"
    THEN IF g.isSweeping /\ g.sweepEnergy > 0
         THEN LET energy == IF g.sweepEnergy - SWEEP_DRAIN_RATE < 0 THEN 0
                            ELSE g.sweepEnergy - SWEEP_DRAIN_RATE
              IN  [g |-> [g EXCEPT !.sweepZones = addSweepZone(@, pt.x, pt.y),
                                   !.sweepEnergy = energy,
                                   !.isSweeping = (energy > 0)],
                   out |-> <<[type |-> "sweep", x |-> pt.x, y |-> pt.y, throw |-> id]>>]
         ELSE [g |-> g, out |-> <<>>]
    ELSE IF ~g.isDragging \/ g.state # "aiming" THEN [g |-> g, out |-> <<>>]
    ELSE [g |-> [g EXCEPT !.aimTarget = TRUE], out |-> <<>>]

\* n consecutive mousemove events at pt; outside the phases aiming and waiting
\* onMove does nothing
RECURSIVE onMoves(_, _, _, _)
onMoves(r, pt, n, id) ==
    IF n = 0 \/ r.g.state \notin {"waiting", "aiming"} THEN r
    ELSE IF n = 1 THEN After(r, onMoveAt(r.g, pt, id))
    ELSE onMoves(onMoves(r, pt, n \div 2, id), pt, n - n \div 2, id)

InitSweep ==
    /\ \E z \in [Peers -> RoughZoneChoices] :
         gm = [p \in Peers |-> startEnd(NewGame(p), z[p])]
    /\ net = [p \in Peers |-> <<>>]
    /\ aux = [launches |-> 0, throws |-> 0, sweeps |-> 0,
              lastThrow |-> [p \in Peers |-> 0],
              synced |-> [p \in Peers |-> 0],
              ends |-> [p \in Peers |-> 1], left |-> {},
              launched |-> [p \in Peers |-> 0],
              syncsSent |-> [p \in Peers |-> 0]]

\* mousedown / touchstart on the canvas, in any phase; aux.sweeps counts the
\* inputs handled in phase waiting
PointerDown(p) ==
    /\ gm[p].state = "waiting" => aux.sweeps < MaxSweepInputs
    /\ \E pt \in SweepPoints :
         gm' = [gm EXCEPT ![p] = onDownAt(gm[p], pt)]
    /\ gm' # gm
    /\ aux' = [aux EXCEPT !.sweeps = IF gm[p].state = "waiting" THEN @ + 1 ELSE @]
    /\ UNCHANGED net

\* a stroke of the pointer over the canvas, in any phase
PointerMoves(p) ==
    /\ gm[p].state = "waiting" => aux.sweeps < MaxSweepInputs
    /\ \E pt \in SweepPoints : \E n \in StrokeLengths :
         LET r == onMoves([g |-> gm[p], out |-> <<>>], pt, n, aux.lastThrow[p])
         IN  /\ gm' = [gm EXCEPT ![p] = r.g]
             /\ net' = Send(p, r.out)
    /\ gm' # gm
    /\ aux' = [aux EXCEPT !.sweeps = IF gm[p].state = "waiting" THEN @ + 1 ELSE @]

\* click on the launch button
LaunchClick(p) ==
    /\ gm[p].state = "aim_locked"
    /\ aux.throws < MaxSweepThrows
    /\ \E v \in LaunchVelocities :
         LET r == launchStone(gm[p], v, aux.launches + 1)
         IN  /\ gm' = [gm EXCEPT ![p] = r.g]
             /\ net' = Send(p, r.out)
    /\ aux' = [aux EXCEPT !.launches = @ + 1, !.throws = @ + 1,
                          !.lastThrow[p] = aux.launches + 1,
                          !.launched[p] = aux.launches + 1,
                          !.syncsSent[p] = 0]

\* the manager after the records queue[i..j] arrived one after the other (the
\* energy is never negative)
RECURSIVE handleRemoteActions(_, _, _, _)
handleRemoteActions(g, queue, i, j) ==
    IF i > j \/ g.sweepEnergy < 0 THEN g
    ELSE IF i = j THEN handleRemoteAction(g, queue[i])
    ELSE handleRemoteActions(handleRemoteActions(g, queue, i, (i + j) \div 2),
                             queue, (i + j) \div 2 + 1, j)

\* the number of sweep records at the head of a queue
RECURSIVE SweepsAhead(_)
SweepsAhead(queue) ==
    IF queue = <<>> \/ Head(queue).type # "sweep" THEN 0
    ELSE 1 + SweepsAhead(Tail(queue))

\* the sweep records of a stroke arrive one after the other
DeliverSweeps(p) ==
    /\ SweepsAhead(net[p]) > 0
    /\ gm' = [gm EXCEPT ![p] = handleRemoteActions(@, net[p], 1, SweepsAhead(net[p]))]
    /\ net' = [net EXCEPT ![p] = SubSeq(@, SweepsAhead(@) + 1, Len(@))]
    /\ UNCHANGED aux

\* a launch or sync-stones record arrives
DeliverThrow(p) ==
    /\ SweepsAhead(net[p]) = 0
    /\ Deliver(p)

NextSweep ==
    \E p \in Peers :
        \/ PointerDown(p)
        \/ PointerMoves(p)
        \/ onUp(p)
        \/ LaunchClick(p)
        \/ CooldownElapsed(p)
        \/ Frames(p)
        \/ DeliverSweeps(p)
        \/ DeliverThrow(p)

SpecSweep == InitSweep /\ [][NextSweep]_vars

\* in the step, peer p handles an input of its own that adds a swept zone
AddsZone(p) ==
    /\ Len(net'[p]) = Len(net[p])
    /\ Len(gm'[p].sweepZones) > Len(gm[p].sweepZones)

\* in the step, peer p handles an input of its own that sweeps: it adds a zone,
\* sends a sweep record or starts a sweep
Sweeps(p) ==
    \/ AddsZone(p)
    \/ /\ Len(net'[Other(p)]) > Len(net[Other(p)])
       /\ Newest(net'[Other(p)]).type = "sweep"
    \/ gm'[p].isSweeping /\ ~gm[p].isSweeping

\* in the step, a throw starts at peer p: it launches, or a launch reaches it
ThrowStarts(p) == aux'.lastThrow[p] # aux.lastThrow[p] /\ aux'.lastThrow[p] # 0

\* C36: sweeping is bounded by a budget per throw.  sweepEnergy stays within
\* 0..MAX_SWEEP_ENERGY; a local input that sweeps lowers sweepEnergy; a local
\* input adds a zone only in phase waiting with sweepEnergy > 0; and
\* sweepEnergy is MAX_SWEEP_ENERGY when a throw starts.
C36_SweepingWithinBudget ==
    [][\A p \in Peers :
         /\ gm[p].sweepEnergy \in 0..MAX_SWEEP_ENERGY
         /\ gm'[p].sweepEnergy \in 0..MAX_SWEEP_ENERGY
         /\ Sweeps(p) => gm'[p].sweepEnergy < gm[p].sweepEnergy
         /\ AddsZone(p) => gm[p].state = "waiting" /\ gm[p].sweepEnergy > 0
         /\ ThrowStarts(p) => gm'[p].sweepEnergy = MAX_SWEEP_ENERGY]_vars

\* a player has swept the throw until no energy is left, and the throw had a
\* throw before it
C36_EnergyUsedUp ==
    \E p \in Peers :
        /\ gm[p].state = "waiting"
        /\ gm[p].sweepEnergy = 0
        /\ ~gm[p].isSweeping
        /\ gm[p].sweepZones # <<>>
        /\ aux.throws = MaxSweepThrows

\* ------------------------------------------------------------------
\* The match under fair scheduling: an animation frame is always served
\* (1625-1631), so a timer that has run out, an elapsed cooldown and the frames
\* of a throw are handled, and the socket hands over what the relay forwarded;
\* the players are taken to dismiss the dialog at the end of an end
\* ------------------------------------------------------------------
\* Frames(p) can be taken, and changes the state, exactly when peer p is in
\* phase waiting: this is WF_vars(Frames(p)) with its ENABLED written out
FairFrames(p) ==
    \/ []<>(gm[p].state # "waiting")
    \/ []<><<Frames(p)>>_vars

Fairness ==
    \A p \in Peers :
        /\ WF_vars(AimTimeout(p))
        /\ WF_vars(CooldownElapsed(p))
        /\ WF_vars(Deliver(p))
        /\ FairFrames(p)
        /\ WF_vars(ClickNextEnd(p))

SpecFair == Init /\ [][Next]_vars /\ Fairness

\* the match is in phase aiming or aim_locked at both peers
InAim == \A q \in Peers : gm[q].state \in {"aiming", "aim_locked"}

\* C37: with both peers connected, whenever the match is in phase aiming or
\* aim_locked (and the match followed has a throw left) a throw is eventually
\* counted: stonesThrown[0] + stonesThrown[1] increases on both peers.
C37_AimingLeadsToThrowCounted ==
    \A p \in Peers : \A a \in 0..StonesPerEnd :
        (InAim /\ aux.left = {} /\ aux.throws < MaxThrows /\ Thrown(gm[p]) = a)
            ~> (Thrown(gm[p]) > a)

\* C38: every throw settles.  Under fair ticking, from any state in which peer p
\* is in phase waiting (and the match followed has two throws left) the peer
\* comes to a state in which none of its stones is moving and it has left
\* waiting for cooldown or end_over.
C38_EveryThrowSettles ==
    \A p \in Peers :
        (gm[p].state = "waiting" /\ aux.throws < MaxThrows - 1)
            ~> (gm[p].state \in {"cooldown", "end_over"} /\ ~anyMoving(gm[p].stones))

\* ------------------------------------------------------------------
\* Two stones with the same start, one on rough ice and one on swept ice
\* ------------------------------------------------------------------
MaxTicks == 30

\* initial velocities: at rest, too slow to move, a stone about to stop, a weak
\* throw, a throw off the centre line, a fast stone
TickVelocities ==
    {<<0, 0>>, <<0, -40>>, <<0, -100>>, <<0, -300>>, <<200, -300>>, <<0, -1000>>}

\* where the stones start, and the ends they are thrown in
TickPlace == [x |-> 4000, y |-> 30000]
TickEnds == {1, 8}

\* a rough patch around the start
RoughPatch == <<[x |-> TickPlace.x, y |-> TickPlace.y, radius |-> 1900]>>

\* the zones left by sweeping along the track of the stones
SweptTrack ==
    addSweepZone(addSweepZone(addSweepZone(<<>>, TickPlace.x, TickPlace.y),
                              TickPlace.x, TickPlace.y - SWEEP_RADIUS),
                 TickPlace.x + SWEEP_RADIUS \div 2, TickPlace.y - SWEEP_RADIUS)

\* gm holds the two stones, net the ice under each of them, aux the ticks so far;
\* the ice under the swept stone is rough as well or not
InitFriction ==
    /\ \E v \in TickVelocities :
         gm = [rough |-> [Stone(0, TickPlace.x, TickPlace.y) EXCEPT !.vx = v[1], !.vy = v[2]],
               swept |-> [Stone(0, TickPlace.x, TickPlace.y) EXCEPT !.vx = v[1], !.vy = v[2]]]
    /\ \E e \in TickEnds : \E under \in {<<>>, RoughPatch} :
         net = [currentEnd |-> e, roughZones |-> RoughPatch,
                sweepZones |-> SweptTrack, underSwept |-> under]
    /\ aux = [ticks |-> 0]

\* the stone s is inside a zone of the list after its next move
StaysInside(s, zones) == InZone(zones, s.x + Step(s.vx), s.y + Step(s.vy))

\* one frame for both stones, as long as each stays on its ice
Tick ==
    /\ aux.ticks < MaxTicks
    /\ StaysInside(gm.rough, net.roughZones)
    /\ StaysInside(gm.swept, net.sweepZones)
    /\ net.underSwept # <<>> => StaysInside(gm.swept, net.underSwept)
    /\ gm' = [rough |-> StoneUpdate(gm.rough, <<>>, net.roughZones, net.currentEnd),
              swept |-> StoneUpdate(gm.swept, net.sweepZones, net.underSwept,
                                    net.currentEnd)]
    /\ aux' = [ticks |-> aux.ticks + 1]
    /\ UNCHANGED net

SpecFriction == InitFriction /\ [][Tick]_vars

\* C39 as stated: after every number N >= 1 of ticks the speed of the stone on
\* rough ice is strictly less than the speed of the stone on swept ice.
C39_RoughStrictlySlower ==
    aux.ticks >= 1 => speedSq(gm.rough) < speedSq(gm.swept)

\* C39: after every number N >= 1 of ticks the stone on rough ice is not faster
\* than the stone on swept ice (swept friction taking precedence where the ice
\* is rough as well), and it is strictly slower as long as the stone on swept
\* ice is still under way.
C39_RoughSlowerWhileSweptMoves ==
    aux.ticks >= 1
        => /\ speedSq(gm.rough) <= speedSq(gm.swept)
           /\ speedSq(gm.swept) > 0 => speedSq(gm.rough) < speedSq(gm.swept)

\* both stones are under way after several ticks, the swept one on ice that is
\* rough as well
C39_BothUnderWay ==
    /\ aux.ticks >= 5
    /\ net.underSwept # <<>>
    /\ isMoving(gm.rough)
    /\ isMoving(gm.swept)

\* ------------------------------------------------------------------
\* One call of resolveCollision on a pair of active stones
\* ------------------------------------------------------------------
\* what rounding to 1/100 unit may take from the distance of the centres
CollisionSlack == 2

\* where stone b lies as seen from stone a: overlapping from far to near, along
\* and across the sheet, just touching, and apart
PairOffsets ==
    { <<2000, 0>>, <<0, -2700>>, <<1500, 1500>>, <<-1000, 2000>>, <<1000, 0>>,
      <<2799, 0>>, <<2800, 0>>, <<3000, 1000>> }

PairVelocities == { <<0, 0>>, <<0, -3000>>, <<2000, 500>>, <<-1000, 0>>, <<0, 1000>> }

\* gm holds the pair, aux the pair before the call and the calls made
InitCollide ==
    /\ \E o \in PairOffsets : \E va, vb \in PairVelocities :
         gm = << [Stone(0, 12000, 30000) EXCEPT !.vx = va[1], !.vy = va[2]],
                 [Stone(1, 12000 + o[1], 30000 + o[2]) EXCEPT !.vx = vb[1], !.vy = vb[2]] >>
    /\ net = <<>>
    /\ aux = [calls |-> 0, before |-> <<>>]

ResolveCall ==
    /\ aux.calls = 0
    /\ gm' = resolveCollision(gm[1], gm[2])
    /\ aux' = [calls |-> 1, before |-> gm]
    /\ UNCHANGED net

SpecCollide == InitCollide /\ [][ResolveCall]_vars

\* the square of the distance of the centres of a pair
GapSq(pair) ==
    (pair[2].x - pair[1].x) * (pair[2].x - pair[1].x)
        + (pair[2].y - pair[1].y) * (pair[2].y - pair[1].y)

\* 0 < d < r1 + r2
Overlapping(pair) ==
    GapSq(pair) > 0 /\ GapSq(pair) < (STONE_RADIUS + STONE_RADIUS) * (STONE_RADIUS + STONE_RADIUS)

\* the sign of dvDotN: the relative velocity along the line of the centres
Closing(pair) ==
    (pair[1].vx - pair[2].vx) * (pair[2].x - pair[1].x)
        + (pair[1].vy - pair[2].vy) * (pair[2].y - pair[1].y)

\* C40: for a pair of active stones that overlap and approach each other, one
\* call of resolveCollision leaves the centres at distance at least r1 + r2, up
\* to rounding, and changes the two velocities by equal and opposite amounts;
\* an overlapping pair that does not approach is left entirely unchanged.
C40_CollisionResolved ==
    aux.calls = 1 /\ Overlapping(aux.before)
        => IF Closing(aux.before) > 0
           THEN /\ GapSq(gm) >= (STONE_RADIUS + STONE_RADIUS - CollisionSlack)
                                    * (STONE_RADIUS + STONE_RADIUS - CollisionSlack)
                /\ gm[1].vx - aux.before[1].vx = -(gm[2].vx - aux.before[2].vx)
                /\ gm[1].vy - aux.before[1].vy = -(gm[2].vy - aux.before[2].vy)
           ELSE gm = aux.before

\* a call has pushed apart two stones that overlapped across the sheet and
\* has changed their velocities
C40_PairPushedApart ==
    /\ aux.calls = 1
    /\ Overlapping(aux.before) /\ Closing(aux.before) > 0
    /\ aux.before[2].x # aux.before[1].x /\ aux.before[2].y # aux.before[1].y
    /\ gm[1].vx # aux.before[1].vx
    /\ ~Overlapping(gm)

====
